---- MODULE Spec2Model ----
(***************************************************************************)
(* Model of the rate-limited batch-fetch engine of export-folder-discogs   *)
(* (src/app/batch_processor.py): TokenBucket, Task, WorkerPool and         *)
(* BatchProcessor.process_releases, with the cache of src/app/database.py. *)
(*                                                                         *)
(* Tokens are floats in the code; here they are integers counted in        *)
(* sub-units, Scale sub-units to one token, so that a bucket holding a     *)
(* fraction of a token is a state of the model. The clock moves in ticks   *)
(* and refill_rate is in sub-units per tick. The bucket reads              *)
(* the clock only as `now - self.last_refill` (line 49), so the model      *)
(* keeps that difference, `elapsed`, in place of the two timestamps; it    *)
(* stops counting at FillTicks, from where on a refill fills the bucket    *)
(* whatever the exact value.                                               *)
(***************************************************************************)
EXTENDS Integers, Sequences, FiniteSets

\* ------------------------------------------------------------- bounds
Scale == 2
MaxCapacity == 2
MaxRate == 2
NumCallers == 2
MaxN == 2
NumWorkers == 2
NumTasks == 2
FaultyTasks == 1
FaultyRate == 1
PoolCapacity == 1
QuietCapacity == 2

\* WorkerPool.__init__(retry_delay=10.0), line 123: the base delay between
\* retries, in ticks.
retry_delay == 1

\* WorkerPool.__init__(max_retries=2), line 122: the retry budget of the
\* pool; BatchProcessor keeps the default.
max_retries == 2

Callers == 1..NumCallers
Workers == 1..NumWorkers
\* Task objects, numbered in the order add_task makes them: FaultyTasks of
\* them when every collaborator may fail, NumTasks when only the fetch may,
\* NumTasks + 1 when none does.
Tasks == 1..(NumTasks + 1)
\* Release identifiers a batch may carry (opaque keys).
ReleaseIds == {1, 2}

Min(a, b) == IF a < b THEN a ELSE b
Max(a, b) == IF a > b THEN a ELSE b

VARIABLES
    \* TokenBucket fields
    capacity,       \* self.capacity, in tokens
    refill_rate,    \* self.refill_rate, in sub-units per tick
    tokens,         \* self.tokens, in sub-units
    elapsed,        \* time.time() - self.last_refill, in ticks
    lock,           \* self.lock: 0 when free, else the thread holding it
    \* direct callers of TokenBucket.consume
    cpc, cn, cres, snap,
    avail0, granted,
    \* history of the calls made on the bucket by its direct callers
    base,           \* the tokens on offer just after the last successful consume
    since,          \* the ticks passed since then
    fresh,          \* no time has passed since __init__
    pure,           \* every call decided so far was a consume(1)
    seen,           \* `since` as the refill of the call in progress found it
    \* WorkerPool fields
    running,        \* self.running
    queue,          \* self.task_queue: the tasks in the PriorityQueue
    unfinished,     \* self.task_queue.unfinished_tasks (put +1, task_done -1)
    retry_count,    \* Task.retry_count of each task
    stats,          \* self.stats
    stats_lock,     \* self.stats_lock: 0 when free, else the thread holding it
    cache,          \* release ids with a fresh row in the cache table
    \* worker threads: position in _worker_loop and the task they hold
    wpc, held,
    cached_data,    \* what get_cached_release returned to each worker (line 212)
    nap,            \* ticks each worker has slept in the time.sleep of line 318
    \* the thread running BatchProcessor.process_releases
    mpc, mi, ids, returned,
    \* what the pool and its tasks were constructed with
    num_workers,    \* self.num_workers
    priority,       \* Task.priority of each task
    \* other threads using the pool and the bucket
    xpc,            \* a thread calling WorkerPool.stop(wait=False)
    abandoned,      \* the tasks queued when that call cleared self.running
    spc,            \* a thread calling WorkerPool.start()
    wt,             \* a thread calling TokenBucket.wait_for_token
    gpc, gsnap,     \* a thread calling WorkerPool.get_stats, and its stats_copy
    \* the job of batch_flask_integration.py that owns the pool
    status,         \* batch_jobs[batch_id]['status']
    jpc,            \* the thread running run_batch
    hpc,            \* a thread serving batch_cancel requests
    dl,             \* the response of a batch_download request
    cut,            \* whether a cancel stopped the pool, and the tasks held then
    \* the cached_releases table of database.py, seen by a thread that calls
    \* cache_release and get_cached_release
    table,          \* the rows of the table
    clock,          \* datetime.utcnow(), in ticks of DaysPerTick days
    reply,          \* what the last call returned, if it was a get_cached_release
    put,            \* history: the last cache_release of each id
    \* history: what the collaborators were asked and answered
    cache0, fetchLog, cbLog, counted, burst

bucketVars == <<capacity, refill_rate, tokens, elapsed, lock>>
callerVars == <<cpc, cn, cres, snap, avail0, granted, base, since, fresh, pure,
               seen>>
givenVars == <<num_workers, priority>>
jobVars == <<status, jpc, hpc, dl, cut>>
dbVars == <<table, clock, reply, put>>
clientVars == <<xpc, abandoned, spc, wt>>
observerVars == <<gpc, gsnap>>
poolVars == <<running, queue, unfinished, retry_count, stats, cache, wpc, held,
              cached_data, nap, mpc, mi, ids, givenVars, jobVars, dbVars, stats_lock, observerVars, clientVars, returned, cache0, fetchLog, cbLog, counted, burst>>
vars == <<bucketVars, callerVars, poolVars>>

\* ------------------------------------------------------- TokenBucket

\* TokenBucket._refill, lines 49-53: the token count after a refill made
\* `el` ticks after the last one.
RefilledNoCap(cap, tok, el) ==
    IF el * refill_rate > 0 THEN tok + el * refill_rate ELSE tok

Refilled(cap, tok, el) ==
    IF el * refill_rate > 0 THEN Min(cap * Scale, tok + el * refill_rate) ELSE tok

\* A refill that left last_refill where it was.
RefillStampKept(el) == el

\* TokenBucket._refill, line 54: last_refill becomes now only when tokens
\* were added.
RefillStamp(el) == IF el * refill_rate > 0 THEN 0 ELSE el

\* TokenBucket.consume, line 69: `if self.tokens >= tokens`.
ConsumeOkStrict(tok, n) == tok > n * Scale

ConsumeOkAlways(tok, n) == TRUE

ConsumeOk(tok, n) == tok >= n * Scale

\* `with self.lock`: the lock can be taken only when no thread holds it.
LockFreeIgnored == TRUE

LockFree == lock = 0

\* The ticks after which a refill fills the bucket from any level.
FillTicks == (capacity * Scale + refill_rate - 1) \div refill_rate

\* The clock one tick later, as the bucket can see it.
Later(el) == Min(el + 1, FillTicks)

\* ----------------------------------------- direct callers of consume

\* History of a call of consume: the bucket as its refill found it (tok,
\* el), and whether the clock has moved since that refill (stale). Blank
\* outside consume.
NoSnap == [tok |-> 0, el |-> 0, stale |-> FALSE]

\* A thread calls consume(n).
C_Call(c, n) ==
    /\ cpc[c] = "idle"
    /\ cpc' = [cpc EXCEPT ![c] = "acquire"]
    /\ cn' = [cn EXCEPT ![c] = n]
    /\ UNCHANGED <<bucketVars, cres, snap, avail0, base, since, fresh, pure, seen,
                   granted, poolVars>>

\* line 66: with self.lock
C_Acquire(c) ==
    /\ cpc[c] = "acquire"
    /\ LockFree
    /\ lock' = c
    /\ cpc' = [cpc EXCEPT ![c] = "refill"]
    /\ UNCHANGED <<capacity, refill_rate, tokens, elapsed, cn, cres, snap, avail0,
                   base, since, fresh, pure, seen, granted, poolVars>>

\* line 67: self._refill()
C_Refill(c) ==
    /\ cpc[c] = "refill"
    /\ tokens' = Refilled(capacity, tokens, elapsed)
    /\ elapsed' = RefillStamp(elapsed)
    /\ snap' = [snap EXCEPT ![c] = [tok |-> tokens, el |-> elapsed, stale |-> FALSE]]
    /\ seen' = since
    /\ cpc' = [cpc EXCEPT ![c] = "check"]
    /\ UNCHANGED <<capacity, refill_rate, lock, cn, cres, avail0, base, since, fresh,
                   pure, granted, poolVars>>

\* line 69: if self.tokens >= tokens ... else line 72: return False
C_Check(c) ==
    /\ cpc[c] = "check"
    /\ IF ConsumeOk(tokens, cn[c])
       THEN /\ cpc' = [cpc EXCEPT ![c] = "dec"]
            /\ granted' = granted + (IF snap[c].stale THEN 0 ELSE cn[c] * Scale)
            /\ UNCHANGED cres
       ELSE /\ cpc' = [cpc EXCEPT ![c] = "release"]
            /\ cres' = [cres EXCEPT ![c] = FALSE]
            /\ UNCHANGED granted
    /\ pure' = (pure /\ cn[c] = 1)
    /\ UNCHANGED <<bucketVars, cn, snap, avail0, base, since, fresh, seen, poolVars>>

\* lines 70-71: self.tokens -= tokens; return True
C_Dec(c) ==
    /\ cpc[c] = "dec"
    /\ tokens' = tokens - cn[c] * Scale
    /\ cres' = [cres EXCEPT ![c] = TRUE]
    /\ cpc' = [cpc EXCEPT ![c] = "release"]
    /\ base' = Min(capacity * Scale, tokens' + elapsed * refill_rate)
    /\ since' = 0
    /\ UNCHANGED <<capacity, refill_rate, elapsed, lock, cn, snap, avail0, fresh, pure,
                   seen, granted, poolVars>>

\* leaving the `with` block releases the lock; consume returns cres[c] and
\* its locals go out of scope
C_Release(c) ==
    /\ cpc[c] = "release"
    /\ lock' = IF lock = c THEN 0 ELSE lock
    /\ cpc' = [cpc EXCEPT ![c] = "idle"]
    /\ cn' = [cn EXCEPT ![c] = 0]
    /\ cres' = [cres EXCEPT ![c] = FALSE]
    /\ snap' = [snap EXCEPT ![c] = NoSnap]
    /\ seen' = 0
    /\ UNCHANGED <<capacity, refill_rate, tokens, elapsed, avail0, base, since, fresh,
                   pure, granted, poolVars>>

\* The tokens owed to the calls of S: what they take at line 70.
RECURSIVE Owed(_)
Owed(S) ==
    IF S = {} THEN 0
    ELSE LET c == CHOOSE x \in S : TRUE IN cn[c] * Scale + Owed(S \ {c})

\* The calls that have refilled and will take their tokens: past the check
\* of line 69, or at it with enough tokens.
Taking == {c \in Callers : \/ cpc[c] = "dec"
                           \/ cpc[c] = "check" /\ ConsumeOk(tokens, cn[c])}

\* The clock advances by one tick. avail0 and granted are history: the
\* tokens available to the calls that refill from now on (what a refill
\* finds once the calls that refilled earlier have taken theirs), and the
\* tokens granted to such calls since.
BucketTick ==
    /\ elapsed' = Later(elapsed)
    /\ avail0' = Refilled(capacity, tokens - Owed(Taking), Later(elapsed))
    /\ snap' = [c \in Callers |-> IF cpc[c] \in {"check", "dec"}
                                 THEN [snap[c] EXCEPT !.stale = TRUE]
                                 ELSE snap[c]]
    /\ granted' = 0
    /\ since' = Later(since)
    /\ fresh' = FALSE
    /\ UNCHANGED <<capacity, refill_rate, tokens, lock, cpc, cn, cres, base, pure, seen,
                   poolVars>>

\* ------------------------------------------- TokenBucket.wait_for_token

\* The longest timeout, in ticks, a caller of wait_for_token gives.
MaxTimeout == 2

\* No call of wait_for_token in progress.
NoWait == [pc |-> "idle", n |-> 0, timeout |-> 0, waited |-> 0, res |-> FALSE]

\* The identity under which the thread calling wait_for_token holds the lock.
WaiterId == NumCallers + NumWorkers + 1

\* A thread calls wait_for_token(n, timeout), the timeout in ticks.
\* line 82: start_time = time.time()
T_Call(n, timeout) ==
    /\ wt.pc = "idle"
    /\ wt' = [pc |-> "try", n |-> n, timeout |-> timeout, waited |-> 0, res |-> FALSE]
    /\ UNCHANGED <<bucketVars, callerVars, running, queue, unfinished, retry_count,
                   stats, cache, wpc, held, mpc, mi, ids, givenVars, jobVars, dbVars, stats_lock, observerVars, cached_data, nap, xpc, abandoned,
                   spc, returned, cache0, fetchLog, cbLog, counted, burst>>

\* lines 85-86: if self.consume(tokens): return True
T_Consume ==
    /\ wt.pc = "try"
    /\ LockFree
    /\ LET r == Refilled(capacity, tokens, elapsed) IN
        /\ elapsed' = RefillStamp(elapsed)
        /\ IF ConsumeOk(r, wt.n)
           THEN /\ tokens' = r - wt.n * Scale
                /\ wt' = [wt EXCEPT !.pc = "done", !.res = TRUE]
           ELSE /\ tokens' = r
                /\ wt' = [wt EXCEPT !.pc = "check"]
    /\ UNCHANGED <<capacity, refill_rate, lock, callerVars, running, queue, unfinished,
                   retry_count, stats, cache, wpc, held, mpc, mi, ids, givenVars, jobVars, dbVars, stats_lock, observerVars, cached_data, nap, xpc,
                   abandoned, spc, returned, cache0, fetchLog, cbLog, counted, burst>>

\* lines 88-89: if timeout and (time.time() - start_time) > timeout:
\* return False. A timeout of 0 is falsy.
T_Timeout ==
    /\ wt.pc = "check"
    /\ wt' = IF wt.timeout # 0 /\ wt.waited > wt.timeout
             THEN [wt EXCEPT !.pc = "done", !.res = FALSE]
             ELSE [wt EXCEPT !.pc = "wait2"]
    /\ UNCHANGED <<bucketVars, callerVars, running, queue, unfinished, retry_count,
                   stats, cache, wpc, held, mpc, mi, ids, givenVars, jobVars, dbVars, stats_lock, observerVars, cached_data, nap, xpc, abandoned,
                   spc, returned, cache0, fetchLog, cbLog, counted, burst>>

\* lines 92-96: under the lock, refill, tokens_needed = n - tokens,
\* time.sleep(min(0.1, tokens_needed / refill_rate)); time.sleep raises
\* ValueError on a negative length, and the exception leaves wait_for_token.
T_WaitSleep ==
    /\ wt.pc = "wait2"
    /\ LockFree
    /\ LET r == Refilled(capacity, tokens, elapsed) IN
        /\ tokens' = r
        /\ elapsed' = RefillStamp(elapsed)
        /\ IF wt.n * Scale - r < 0
           THEN /\ wt' = [wt EXCEPT !.pc = "raised"]
                /\ UNCHANGED lock
           ELSE /\ wt' = [wt EXCEPT !.pc = "sleep"]
                /\ lock' = WaiterId
    /\ UNCHANGED <<capacity, refill_rate, callerVars, running, queue, unfinished,
                   retry_count, stats, cache, wpc, held, mpc, mi, ids, givenVars, jobVars, dbVars, stats_lock, observerVars, cached_data, nap, xpc,
                   abandoned, spc, returned, cache0, fetchLog, cbLog, counted, burst>>

\* line 96 returns: the lock is released and the loop of line 84 goes round
T_Wake ==
    /\ wt.pc = "sleep"
    /\ lock' = 0
    /\ wt' = [wt EXCEPT !.pc = "try"]
    /\ UNCHANGED <<capacity, refill_rate, tokens, elapsed, callerVars, running, queue,
                   unfinished, retry_count, stats, cache, wpc, held, mpc, mi, ids,
                   givenVars, jobVars, dbVars, stats_lock, observerVars, cached_data, nap, xpc, abandoned, spc, returned, cache0, fetchLog, cbLog,
                   counted, burst>>

\* The caller has its answer (or the exception) and is free to call again.
T_Return ==
    /\ wt.pc \in {"done", "raised"}
    /\ wt' = NoWait
    /\ UNCHANGED <<bucketVars, callerVars, running, queue, unfinished, retry_count,
                   stats, cache, wpc, held, mpc, mi, ids, givenVars, jobVars, dbVars, stats_lock, observerVars, cached_data, nap, xpc, abandoned,
                   spc, returned, cache0, fetchLog, cbLog, counted, burst>>

\* ---------------------------------------------------------- WorkerPool

\* BatchProcessor.process_releases(priority=5): every task of a batch
\* carries the same priority.
DefaultPriority == 5

Priority(t) == priority[t]

\* A queue that hands out any of its tasks.
LeastAny(q) == q

\* PriorityQueue.get: a task with the least priority value; Task compares by
\* priority only, so any of the least tasks may come out.
Least(q) == {t \in q : \A u \in q : Priority(t) <= Priority(u)}

\* The worker threads hold the bucket lock under an identity of their own.
LockId(w) == NumCallers + w

\* line 309: `task.retry_count < self.max_retries and ('429' in error_msg or
\* 'Expecting value' in error_msg)`; has429 says whether the text of the
\* exception matches.
ShouldRetry(rc, has429) == rc < max_retries /\ has429

\* What a remote fetch (lines 235-291: client.release and the extraction that
\* reads it) can raise: a rate-limit rejection ("429: ...") or a permanent
\* error, whose text may or may not contain 429.
FetchErrors == {"rate", "perm"}

\* The identities under which the thread running process_releases and the
\* thread calling get_stats hold the statistics lock.
MainId == LockId(NumWorkers) + 1
ObserverId == MainId + 1

\* `with self.stats_lock:` around one statement: thread `id` takes the lock
\* as soon as no other thread holds it, and releases it when the statement
\* is done.
StatsLocked(id) ==
    /\ stats_lock \in {0, id}
    /\ stats_lock' = 0

\* An increment that is lost.
BumpLost(field) == stats

\* `with self.stats_lock: self.stats[field] += 1`
Bump(field) == [stats EXCEPT ![field] = stats[field] + 1]

\* lines 305-328, the inner `except Exception`: retry (310-316) or count the
\* task failed (323-324). The caller gives the worker and whether the text of
\* the exception matches line 309; `st` is the statistics block as the
\* raising statement left it.
HandleError(w, has429, st) ==
    LET t == held[w] IN
    /\ StatsLocked(LockId(w))
    /\ IF ShouldRetry(retry_count[t], has429)
       THEN /\ retry_count' = [retry_count EXCEPT ![t] = retry_count[t] + 1]
            /\ stats' = [st EXCEPT !.retries = st.retries + 1]
            /\ wpc' = [wpc EXCEPT ![w] = "backoff"]
            /\ UNCHANGED counted
       ELSE /\ stats' = [st EXCEPT !.failed = st.failed + 1]
            /\ counted' = [counted EXCEPT ![t] = "failed"]
            /\ wpc' = [wpc EXCEPT ![w] = "fail_cb"]
            /\ UNCHANGED retry_count

\* A delay that would not grow with the retries.
WaitTimeFlat(k) == retry_delay

\* line 311: wait_time = self.retry_delay * task.retry_count, for the retry
\* that brought retry_count to k
WaitTime(k) == retry_delay * k

\* Where a worker would go if an exception left _worker_loop.
Uncaught == "stopped"

\* lines 332-334, the outer `except Exception`: the error is printed,
\* task_done() is called and the while loop of line 203 goes round.
OuterExcept == "task_done"

\* A loop test that would also hold while tasks remain in the queue.
LoopTestDraining == running \/ queue # {}

\* line 203, the test of the worker's loop: self.running
LoopTest == running

\* line 203: while self.running
W_Loop(w) ==
    /\ wpc[w] = "loop"
    /\ wpc' = [wpc EXCEPT ![w] = IF LoopTest THEN "get" ELSE "stopped"]
    /\ UNCHANGED <<bucketVars, callerVars, running, queue, unfinished, retry_count,
                   stats, cache, held, mpc, mi, ids, givenVars, jobVars, dbVars, stats_lock, observerVars, cached_data, nap, clientVars, returned, cache0, fetchLog,
                   cbLog, counted, burst>>

\* A get that would leave the task in the queue.
TakenKept(q, t) == q

\* PriorityQueue.get: the task leaves the queue
Taken(q, t) == q \ {t}

\* lines 204-208: task = self.task_queue.get(timeout=1.0); Empty -> continue
W_Get(w) ==
    /\ wpc[w] = "get"
    /\ IF queue = {}
       THEN /\ wpc' = [wpc EXCEPT ![w] = "loop"]
            /\ UNCHANGED <<queue, held>>
       ELSE \E t \in Least(queue) :
            /\ queue' = Taken(queue, t)
            /\ held' = [held EXCEPT ![w] = t]
            /\ wpc' = [wpc EXCEPT ![w] = "lookup"]
    /\ UNCHANGED <<bucketVars, callerVars, running, unfinished, retry_count, stats,
                   cache, mpc, mi, ids, givenVars, jobVars, dbVars, stats_lock, observerVars, cached_data, nap, clientVars, returned, cache0, fetchLog, cbLog, counted,
                   burst>>

\* A lookup that never finds the row.
HasRowNever(id) == FALSE

\* database.py 120-122: the cache table holds a row for the id
HasRow(id) == id \in cache

\* database.py 110-150, what get_cached_release returns: the row as a dict;
\* None when there is no row; None when the database raises (caught at
\* 146-148)
Lookup(id, dbFails) ==
    IF dbFails THEN "error" ELSE IF HasRow(id) THEN "row" ELSE "None"

\* lines 212-216: cached_data = db_manager.get_cached_release(...); a record
\* is a hit and bumps cache_hits, None is a miss.
W_Lookup(w, dbFails) ==
    /\ wpc[w] = "lookup"
    /\ cached_data' = [cached_data EXCEPT ![w] = Lookup(ids[held[w]], dbFails)]
    /\ IF cached_data'[w] = "row"
       THEN /\ StatsLocked(LockId(w))
            /\ stats' = Bump("cache_hits")
            /\ wpc' = [wpc EXCEPT ![w] = "hit_cb"]
       ELSE /\ wpc' = [wpc EXCEPT ![w] = "wait"]
            /\ UNCHANGED <<stats, stats_lock>>
    /\ UNCHANGED <<bucketVars, callerVars, running, queue, unfinished, retry_count,
                   cache, held, mpc, mi, ids, givenVars, jobVars, dbVars, observerVars, nap, clientVars, returned, cache0, fetchLog, cbLog,
                   counted, burst>>

\* lines 221-222: task.callback(task.release_id, cached_data, task.metadata).
\* The callback is the caller's code: it returns, or it raises, and then the
\* outer `except Exception` (332-334) takes over.
W_HitCallback(w, raises) ==
    /\ wpc[w] = "hit_cb"
    /\ cbLog' = [cbLog EXCEPT ![held[w]] = Append(@, "rec")]
    /\ wpc' = [wpc EXCEPT ![w] = IF raises THEN OuterExcept ELSE "count_ok"]
    /\ UNCHANGED <<bucketVars, callerVars, running, queue, unfinished, retry_count,
                   stats, cache, held, mpc, mi, ids, givenVars, jobVars, dbVars, stats_lock, observerVars, cached_data, nap, clientVars, returned, cache0, fetchLog,
                   counted, burst>>

\* lines 224-225 and 302-303: self.stats['completed'] += 1
W_CountCompleted(w) ==
    /\ wpc[w] = "count_ok"
    /\ StatsLocked(LockId(w))
    /\ stats' = Bump("completed")
    /\ counted' = [counted EXCEPT ![held[w]] = "completed"]
    /\ wpc' = [wpc EXCEPT ![w] = "task_done"]
    /\ UNCHANGED <<bucketVars, callerVars, running, queue, unfinished, retry_count,
                   cache, held, mpc, mi, ids, givenVars, jobVars, dbVars, observerVars, cached_data, nap, clientVars, returned, cache0, fetchLog, cbLog,
                   burst>>

\* A task_done that would answer two puts.
TaskDoneTwice(u) == u - 2

\* Queue.task_done: unfinished_tasks goes down by one
TaskDone(u) == u - 1

\* lines 227, 330 and 334: self.task_queue.task_done(), and back to the loop
W_TaskDone(w) ==
    /\ wpc[w] = "task_done"
    /\ unfinished' = TaskDone(unfinished)
    /\ held' = [held EXCEPT ![w] = 0]
    /\ cached_data' = [cached_data EXCEPT ![w] = "unset"]
    /\ wpc' = [wpc EXCEPT ![w] = "loop"]
    /\ UNCHANGED <<bucketVars, callerVars, running, queue, retry_count, stats, cache,
                   mpc, mi, ids, givenVars, jobVars, dbVars, stats_lock, observerVars, nap, clientVars, returned, cache0, fetchLog, cbLog, counted, burst>>

\* lines 84-86 inside wait_for_token(1): consume(1), lines 66-72, under the
\* bucket lock: refill, then take one token if there is one.
W_Consume(w) ==
    /\ wpc[w] = "wait"
    /\ LockFree
    /\ LET r == Refilled(capacity, tokens, elapsed) IN
        /\ elapsed' = RefillStamp(elapsed)
        /\ IF ConsumeOk(r, 1)
           THEN /\ tokens' = r - Scale
                /\ wpc' = [wpc EXCEPT ![w] = "fetch"]
           ELSE /\ tokens' = r
                /\ wpc' = [wpc EXCEPT ![w] = "wait2"]
    /\ UNCHANGED <<capacity, refill_rate, lock, callerVars, running, queue, unfinished,
                   retry_count, stats, cache, held, mpc, mi, ids, givenVars, jobVars, dbVars, stats_lock, observerVars, cached_data, nap, clientVars, returned, cache0,
                   fetchLog, cbLog, counted, burst>>

\* lines 92-96: under the lock, refill again, tokens_needed = 1 - tokens,
\* time.sleep(min(0.1, tokens_needed / refill_rate)). time.sleep raises
\* ValueError on a negative length; the `with` releases the lock and the
\* exception leaves wait_for_token for the outer `except Exception`.
\* Otherwise the thread sleeps holding the lock.
W_WaitSleep(w) ==
    /\ wpc[w] = "wait2"
    /\ LockFree
    /\ LET r == Refilled(capacity, tokens, elapsed) IN
        /\ tokens' = r
        /\ elapsed' = RefillStamp(elapsed)
        /\ IF Scale - r < 0
           THEN /\ wpc' = [wpc EXCEPT ![w] = OuterExcept]
                /\ UNCHANGED lock
           ELSE /\ wpc' = [wpc EXCEPT ![w] = "sleep"]
                /\ lock' = LockId(w)
    /\ UNCHANGED <<capacity, refill_rate, callerVars, running, queue, unfinished,
                   retry_count, stats, cache, held, mpc, mi, ids, givenVars, jobVars, dbVars, stats_lock, observerVars, cached_data, nap, clientVars, returned, cache0,
                   fetchLog, cbLog, counted, burst>>

\* line 96 returns: the lock is released and the loop of line 84 goes round
W_Wake(w) ==
    /\ wpc[w] = "sleep"
    /\ lock' = 0
    /\ wpc' = [wpc EXCEPT ![w] = "wait"]
    /\ UNCHANGED <<capacity, refill_rate, tokens, elapsed, callerVars, running, queue,
                   unfinished, retry_count, stats, cache, held, mpc, mi, ids, givenVars, jobVars, dbVars, stats_lock, observerVars, cached_data, nap, clientVars,
                   returned, cache0, fetchLog, cbLog, counted, burst>>

\* lines 235-291, the fetch succeeding: api_calls += 1 and a record is built
W_FetchOk(w) ==
    /\ wpc[w] = "fetch"
    /\ fetchLog' = [fetchLog EXCEPT ![held[w]] = Append(@, "ok")]
    /\ burst' = burst + Scale
    /\ StatsLocked(LockId(w))
    /\ stats' = Bump("api_calls")
    /\ wpc' = [wpc EXCEPT ![w] = "store"]
    /\ UNCHANGED <<bucketVars, callerVars, running, queue, unfinished, retry_count,
                   cache, held, mpc, mi, ids, givenVars, jobVars, dbVars, observerVars, cached_data, nap, clientVars, returned, cache0, cbLog, counted>>

\* lines 235-291, the fetch failing: client.release raises (before line 238)
\* or the extraction that reads the release raises (after it); then the inner
\* `except Exception`.
W_FetchError(w, e, has429, afterCount) ==
    /\ wpc[w] = "fetch"
    /\ e = "rate" => has429
    /\ fetchLog' = [fetchLog EXCEPT ![held[w]] = Append(@, e)]
    /\ HandleError(w, has429, IF afterCount THEN Bump("api_calls") ELSE stats)
    /\ burst' = burst + Scale
    /\ UNCHANGED <<bucketVars, callerVars, running, queue, unfinished, cache, held,
                   mpc, mi, ids, givenVars, jobVars, dbVars, observerVars, cached_data, nap, clientVars, returned, cache0, cbLog>>

\* line 294: db_manager.cache_release (database.py 152-197): the row is
\* written, or a database error is caught there and nothing is stored
W_Store(w, dbFails) ==
    /\ wpc[w] = "store"
    /\ cache' = IF dbFails THEN cache ELSE cache \cup {ids[held[w]]}
    /\ wpc' = [wpc EXCEPT ![w] = "cb"]
    /\ UNCHANGED <<bucketVars, callerVars, running, queue, unfinished, retry_count,
                   stats, held, mpc, mi, ids, givenVars, jobVars, dbVars, stats_lock, observerVars, cached_data, nap, clientVars, returned, cache0, fetchLog, cbLog,
                   counted, burst>>

\* lines 299-300: task.callback(task.release_id, release_data, task.metadata),
\* returning
W_CallbackOk(w) ==
    /\ wpc[w] = "cb"
    /\ cbLog' = [cbLog EXCEPT ![held[w]] = Append(@, "rec")]
    /\ wpc' = [wpc EXCEPT ![w] = "count_ok"]
    /\ UNCHANGED <<bucketVars, callerVars, running, queue, unfinished, retry_count,
                   stats, cache, held, mpc, mi, ids, givenVars, jobVars, dbVars, stats_lock, observerVars, cached_data, nap, clientVars, returned, cache0, fetchLog,
                   counted, burst>>

\* lines 299-300, the callback raising: the call is inside the inner `try`,
\* so the inner `except Exception` handles it like a fetch error
W_CallbackRaises(w, has429) ==
    /\ wpc[w] = "cb"
    /\ cbLog' = [cbLog EXCEPT ![held[w]] = Append(@, "rec")]
    /\ HandleError(w, has429, stats)
    /\ UNCHANGED <<bucketVars, callerVars, running, queue, unfinished, cache, held,
                   mpc, mi, ids, givenVars, jobVars, dbVars, observerVars, cached_data, nap, clientVars, returned, cache0, fetchLog, burst>>

\* line 319, after the sleep of line 318: self.task_queue.put(task)
W_Requeue(w) ==
    /\ wpc[w] = "requeue"
    /\ queue' = queue \cup {held[w]}
    /\ unfinished' = unfinished + 1
    /\ wpc' = [wpc EXCEPT ![w] = "task_done"]
    /\ nap' = [nap EXCEPT ![w] = 0]
    /\ UNCHANGED <<bucketVars, callerVars, running, retry_count, stats, cache, held,
                   mpc, mi, ids, givenVars, jobVars, dbVars, stats_lock, observerVars, cached_data, clientVars, returned, cache0, fetchLog, cbLog, counted, burst>>

\* lines 327-328: task.callback(task.release_id, None, task.metadata); if it
\* raises, the outer `except Exception`; task_done follows either way
W_FailCallback(w, raises) ==
    /\ wpc[w] = "fail_cb"
    /\ cbLog' = [cbLog EXCEPT ![held[w]] = Append(@, "none")]
    /\ wpc' = [wpc EXCEPT ![w] = IF raises THEN OuterExcept ELSE "task_done"]
    /\ UNCHANGED <<bucketVars, callerVars, running, queue, unfinished, retry_count,
                   stats, cache, held, mpc, mi, ids, givenVars, jobVars, dbVars, stats_lock, observerVars, cached_data, nap, clientVars, returned, cache0, fetchLog,
                   counted, burst>>

\* ------------------------------------ BatchProcessor.process_releases

\* start() has been called: self.workers is not empty (lines 358-365).
Started == \E w \in Workers : wpc[w] # "unborn"

\* lines 358-365: num_workers new threads are created and started; they take
\* the first free places of the model's thread table.
Spawned ==
    [w \in Workers |->
        IF wpc[w] = "unborn"
           /\ Cardinality({v \in Workers : v < w /\ wpc[v] = "unborn"}) < num_workers
        THEN "loop" ELSE wpc[w]]

\* WorkerPool.start, lines 350-365, called at line 476; start_time is
\* written at line 355, outside any `with self.stats_lock`
M_Start ==
    /\ mpc = "start"
    /\ IF running
       THEN UNCHANGED <<running, stats, wpc>>
       ELSE /\ running' = TRUE
            /\ stats' = [stats EXCEPT !.start_time = "set"]
            /\ wpc' = Spawned
    /\ mpc' = IF mi > Len(ids) THEN "stop" ELSE "put"
    /\ UNCHANGED <<bucketVars, callerVars, queue, unfinished, retry_count,
                   cache, held, mi, ids, givenVars, jobVars, dbVars, stats_lock, observerVars, cached_data, nap, clientVars, returned, cache0, fetchLog, cbLog, counted,
                   burst>>

\* WorkerPool.add_task, lines 176-182, called at line 480:
\* self.task_queue.put(task)
M_Put ==
    /\ mpc = "put"
    /\ queue' = queue \cup {mi}
    /\ unfinished' = unfinished + 1
    /\ mpc' = "count"
    /\ UNCHANGED <<bucketVars, callerVars, running, retry_count, stats, cache, wpc,
                   held, mi, ids, givenVars, jobVars, dbVars, stats_lock, observerVars, cached_data, nap, clientVars, returned, cache0, fetchLog, cbLog, counted, burst>>

\* WorkerPool.add_task, lines 184-185: self.stats['total_tasks'] += 1
M_Count ==
    /\ mpc = "count"
    /\ StatsLocked(MainId)
    /\ stats' = Bump("total_tasks")
    /\ mi' = mi + 1
    /\ mpc' = IF mi < Len(ids) THEN "put" ELSE IF Started THEN "stop" ELSE "start"
    /\ UNCHANGED <<bucketVars, callerVars, running, queue, unfinished, retry_count,
                   cache, wpc, held, ids, givenVars, jobVars, dbVars, observerVars, cached_data, nap, clientVars, returned, cache0, fetchLog, cbLog, counted,
                   burst>>

\* line 381: self.task_queue.join() returns when every put has been answered
\* by a task_done, i.e. when unfinished_tasks is 0.
DrainedWhenEmpty == queue = {}

Drained == unfinished = 0

\* WorkerPool.stop(wait=True), lines 376-377: if not self.running: return
M_StopCheck ==
    /\ mpc = "stop"
    /\ mpc' = IF running THEN "join" ELSE "stats"
    /\ UNCHANGED <<bucketVars, callerVars, running, queue, unfinished, retry_count,
                   stats, cache, wpc, held, mi, ids, givenVars, jobVars, dbVars, stats_lock, observerVars, cached_data, nap, clientVars, returned,
                   cache0, fetchLog, cbLog, counted, burst>>

\* lines 379-381: if wait: self.task_queue.join()
M_Join ==
    /\ mpc = "join"
    /\ Drained
    /\ mpc' = "clear"
    /\ UNCHANGED <<bucketVars, callerVars, running, queue, unfinished, retry_count,
                   stats, cache, wpc, held, mi, ids, givenVars, jobVars, dbVars, stats_lock, observerVars, cached_data, nap, clientVars, returned,
                   cache0, fetchLog, cbLog, counted, burst>>

\* WorkerPool.stop, lines 383-390: self.running = False;
\* self.stats['end_time'] = datetime.now(), outside any `with
\* self.stats_lock`; each worker is joined for at most 2 s, stopped or not
M_Clear ==
    /\ mpc = "clear"
    /\ running' = FALSE
    /\ stats' = [stats EXCEPT !.end_time = "set"]
    /\ mpc' = "stats"
    /\ UNCHANGED <<bucketVars, callerVars, queue, unfinished, retry_count,
                   cache, wpc, held, mi, ids, givenVars, jobVars, dbVars, stats_lock, observerVars, cached_data, nap, clientVars, returned, cache0, fetchLog, cbLog,
                   counted, burst>>

\* Another thread calls WorkerPool.start(). Lines 350-352: if self.running:
\* return
S_Check ==
    /\ spc = "idle"
    /\ spc' = IF running THEN "done" ELSE "set"
    /\ UNCHANGED <<bucketVars, callerVars, running, queue, unfinished, retry_count,
                   stats, cache, wpc, held, mpc, mi, ids, givenVars, jobVars, dbVars, stats_lock, observerVars, cached_data, nap, xpc, abandoned,
                   wt, returned, cache0, fetchLog, cbLog, counted, burst>>

\* lines 354-355: self.running = True; self.stats['start_time'] =
\* datetime.now(), outside any `with self.stats_lock`
S_Set ==
    /\ spc = "set"
    /\ running' = TRUE
    /\ stats' = [stats EXCEPT !.start_time = "set"]
    /\ spc' = "spawn"
    /\ UNCHANGED <<bucketVars, callerVars, queue, unfinished, retry_count,
                   cache, wpc, held, mpc, mi, ids, givenVars, jobVars, dbVars, stats_lock, observerVars, cached_data, nap, xpc, abandoned, wt,
                   returned, cache0, fetchLog, cbLog, counted, burst>>

\* lines 358-365: the worker threads are created and started
S_Spawn ==
    /\ spc = "spawn"
    /\ wpc' = Spawned
    /\ spc' = "done"
    /\ UNCHANGED <<bucketVars, callerVars, running, queue, unfinished, retry_count,
                   stats, cache, held, mpc, mi, ids, givenVars, jobVars, dbVars, stats_lock, observerVars, cached_data, nap, xpc, abandoned, wt,
                   returned, cache0, fetchLog, cbLog, counted, burst>>

\* Another thread calls WorkerPool.stop(wait=False), lines 376-384: return if
\* not running; no join on the queue; self.running = False and end_time is
\* written, outside any `with self.stats_lock`. Nothing another
\* thread does between the test and the assignment changes their outcome.
X_Stop ==
    /\ xpc = "idle"
    /\ IF ~running
       THEN /\ xpc' = "done"
            /\ UNCHANGED <<running, stats, abandoned>>
       ELSE /\ running' = FALSE
            /\ stats' = [stats EXCEPT !.end_time = "set"]
            /\ abandoned' = queue
            /\ xpc' = "join"
    /\ UNCHANGED <<bucketVars, callerVars, queue, unfinished, retry_count,
                   cache, wpc, held, mpc, mi, ids, givenVars, jobVars, dbVars, stats_lock, observerVars, cached_data, nap, spc, wt, returned,
                   cache0, fetchLog, cbLog, counted, burst>>

\* lines 387-390: worker.join(timeout=2.0) for each worker, stopped or not,
\* then self.workers.clear(); stop returns
X_Return ==
    /\ xpc = "join"
    /\ xpc' = "done"
    /\ UNCHANGED <<bucketVars, callerVars, running, queue, unfinished, retry_count,
                   stats, cache, wpc, held, mpc, mi, ids, givenVars, jobVars, dbVars, stats_lock, observerVars, cached_data, nap, abandoned, spc,
                   wt, returned, cache0, fetchLog, cbLog, counted, burst>>

\* WorkerPool.start, lines 350-365, called by the thread whose
\* stop(wait=False) has returned: the pool's threads are not waited for
\* beyond the bounded join of lines 387-388, so they may still be at work.
X_Restart ==
    /\ xpc = "done"
    /\ IF running
       THEN UNCHANGED <<running, stats, wpc>>
       ELSE /\ running' = TRUE
            /\ stats' = [stats EXCEPT !.start_time = "set"]
            /\ wpc' = Spawned
    /\ xpc' = "restarted"
    /\ UNCHANGED <<bucketVars, callerVars, queue, unfinished, retry_count,
                   cache, held, mpc, mi, ids, givenVars, jobVars, dbVars, stats_lock, observerVars, cached_data, nap, abandoned, spc, wt,
                   returned, cache0, fetchLog, cbLog, counted, burst>>

\* run_batch, lines 160-162: the status becomes 'processing' and
\* process_releases is called.
J_Begin ==
    /\ jpc = "idle"
    /\ mpc = "new"
    /\ status' = "processing"
    /\ jpc' = "run"
    /\ mpc' = "start"
    /\ UNCHANGED <<bucketVars, callerVars, queue, unfinished, retry_count, cache, wpc,
                   held, cached_data, nap, mi, ids, givenVars, dbVars, stats_lock,
                   observerVars, clientVars, returned, cache0, fetchLog, cbLog,
                   counted, burst, running, stats, hpc, dl, cut>>

\* run_batch, lines 169-171, once process_releases has returned
J_Complete ==
    /\ jpc = "run"
    /\ mpc = "done"
    /\ status' = "completed"
    /\ jpc' = "done"
    /\ UNCHANGED <<bucketVars, callerVars, queue, unfinished, retry_count, cache, wpc,
                   held, cached_data, nap, mi, ids, givenVars, dbVars, stats_lock,
                   observerVars, clientVars, returned, cache0, fetchLog, cbLog,
                   counted, burst, running, stats, mpc, hpc, dl, cut>>

\* run_batch, lines 173-175: process_releases raises, which it does when
\* start() cannot create a thread (line 364, after lines 354-355).
J_Error ==
    /\ jpc = "run"
    /\ mpc = "start"
    /\ ~running
    /\ running' = TRUE
    /\ stats' = [stats EXCEPT !.start_time = "set"]
    /\ mpc' = "raised"
    /\ status' = "error"
    /\ jpc' = "done"
    /\ UNCHANGED <<bucketVars, callerVars, queue, unfinished, retry_count, cache, wpc,
                   held, cached_data, nap, mi, ids, givenVars, dbVars, stats_lock,
                   observerVars, clientVars, returned, cache0, fetchLog, cbLog,
                   counted, burst, hpc, dl, cut>>

\* The statuses batch_cancel accepts, line 345
Cancellable == {"starting", "processing"}

\* batch_cancel, lines 340-346: the job exists; a status other than
\* 'starting' and 'processing' is answered with 400.
H_Cancel ==
    /\ hpc = "idle"
    /\ hpc' = IF status \in Cancellable THEN "stop" ELSE "400"
    /\ UNCHANGED <<bucketVars, callerVars, queue, unfinished, retry_count, cache, wpc,
                   held, cached_data, nap, mi, ids, givenVars, dbVars, stats_lock,
                   observerVars, clientVars, returned, cache0, fetchLog, cbLog,
                   counted, burst, running, stats, mpc, status, jpc, dl, cut>>

\* The tasks the workers hold: dequeued and not yet answered.
HeldNow == {held[w] : w \in {v \in Workers : held[v] # 0 /\ wpc[v] # "task_done"}}

\* batch_cancel, line 349: pool.stop(wait=False), lines 376-384
H_Stop ==
    /\ hpc = "stop"
    /\ IF ~running
       THEN /\ hpc' = "set"
            /\ UNCHANGED <<running, stats>>
       ELSE /\ running' = FALSE
            /\ stats' = [stats EXCEPT !.end_time = "set"]
            /\ hpc' = "join"
    /\ cut' = [made |-> TRUE, kept |-> HeldNow]
    /\ UNCHANGED <<bucketVars, callerVars, queue, unfinished, retry_count, cache, wpc,
                   held, cached_data, nap, mi, ids, givenVars, dbVars, stats_lock,
                   observerVars, clientVars, returned, cache0, fetchLog, cbLog,
                   counted, burst, mpc, status, jpc, dl>>

\* pool.stop(wait=False), lines 387-390: the joins, each of 2 seconds at
\* most, and workers.clear()
H_Join ==
    /\ hpc = "join"
    /\ hpc' = "set"
    /\ UNCHANGED <<bucketVars, callerVars, queue, unfinished, retry_count, cache, wpc,
                   held, cached_data, nap, mi, ids, givenVars, dbVars, stats_lock,
                   observerVars, clientVars, returned, cache0, fetchLog, cbLog,
                   counted, burst, running, stats, mpc, status, jpc, dl, cut>>

\* batch_cancel, lines 352-354
H_Set ==
    /\ hpc = "set"
    /\ status' = "cancelled"
    /\ hpc' = "200"
    /\ UNCHANGED <<bucketVars, callerVars, queue, unfinished, retry_count, cache, wpc,
                   held, cached_data, nap, mi, ids, givenVars, dbVars, stats_lock,
                   observerVars, clientVars, returned, cache0, fetchLog, cbLog,
                   counted, burst, running, stats, mpc, jpc, dl, cut>>

\* The client has its answer and may send another cancel request.
H_Next ==
    /\ hpc \in {"400", "200"}
    /\ hpc' = "idle"
    /\ UNCHANGED <<bucketVars, callerVars, queue, unfinished, retry_count, cache, wpc,
                   held, cached_data, nap, mi, ids, givenVars, dbVars, stats_lock,
                   observerVars, clientVars, returned, cache0, fetchLog, cbLog,
                   counted, burst, running, stats, mpc, status, jpc, dl, cut>>

\* A batch_download that would also serve a cancelled job.
DownloadableOrCancelled(st) == st \in {"completed", "cancelled"}

\* batch_download, line 260: if job['status'] != 'completed': 400
Downloadable(st) == st = "completed"

\* batch_download, lines 255-295
H_Download ==
    /\ dl = "none"
    /\ dl' = IF Downloadable(status) THEN "csv" ELSE "400"
    /\ UNCHANGED <<bucketVars, callerVars, queue, unfinished, retry_count, cache, wpc,
                   held, cached_data, nap, mi, ids, givenVars, dbVars, stats_lock,
                   observerVars, clientVars, returned, cache0, fetchLog, cbLog,
                   counted, burst, running, stats, mpc, status, jpc, hpc, cut>>

\* The client has its answer and may send another download request.
H_Downloaded ==
    /\ dl # "none"
    /\ dl' = "none"
    /\ UNCHANGED <<bucketVars, callerVars, queue, unfinished, retry_count, cache, wpc,
                   held, cached_data, nap, mi, ids, givenVars, dbVars, stats_lock,
                   observerVars, clientVars, returned, cache0, fetchLog, cbLog,
                   counted, burst, running, stats, mpc, status, jpc, hpc, cut>>

\* lines 486-489: stats = self.pool.get_stats() (the copy of line 396, under
\* the statistics lock); return stats
M_Return ==
    /\ mpc = "stats"
    /\ StatsLocked(MainId)
    /\ returned' = stats
    /\ mpc' = "done"
    /\ UNCHANGED <<bucketVars, callerVars, running, queue, unfinished, retry_count,
                   stats, cache, wpc, held, mi, ids, givenVars, jobVars, dbVars, observerVars, cached_data, nap, clientVars, cache0, fetchLog, cbLog,
                   counted, burst>>

\* The clock advances by one tick. burst is history: the greatest, over the
\* instants a up to now, of Scale * (fetches made from a to now) minus
\* refill_rate * (now - a); so burst <= B says that no interval of any
\* length T has held more than B + refill_rate * T sub-units' worth of
\* fetches.
\* A worker in the sleep of line 318, time.sleep(wait_time), has slept one
\* tick more, and wakes when it has slept wait_time.
Tick ==
    /\ elapsed' = Later(elapsed)
    /\ burst' = Max(burst - refill_rate, 0)
    /\ nap' = [w \in Workers |-> IF wpc[w] = "backoff" THEN nap[w] + 1 ELSE nap[w]]
    /\ wpc' = [w \in Workers |->
                IF wpc[w] = "backoff" /\ nap[w] + 1 >= WaitTime(retry_count[held[w]])
                THEN "requeue" ELSE wpc[w]]
    /\ wt' = IF wt.pc = "idle" THEN wt
             ELSE [wt EXCEPT !.waited = Min(wt.waited + 1, MaxTimeout + 1)]
    /\ UNCHANGED <<capacity, refill_rate, tokens, lock, callerVars, running, queue, unfinished,
                   retry_count, stats, cache, held, mpc, mi, ids, givenVars, jobVars, dbVars, stats_lock, observerVars, cached_data, xpc, abandoned, spc, returned,
                   cache0, fetchLog, cbLog, counted>>

\* The batches process_releases is given: n release ids, the first being
\* id 1 (ids are opaque, so this loses no case).
Batches(n) == {b \in [1..n -> ReleaseIds] : b[1] = 1}

NoStats == [total_tasks |-> 0, completed |-> 0, failed |-> 0, cache_hits |-> 0,
            api_calls |-> 0, retries |-> 0, start_time |-> "None",
            end_time |-> "None"]

\* ------------------------------------------------- the cache table
\* One tick of the table's clock, in days.
DaysPerTick == 10
\* How far the table's clock runs, in ticks.
MaxClock == 5
\* get_cached_release, line 127: timedelta(days=30)
MaxAgeDays == 30

\* The ten columns of CachedRelease that cache_release writes and
\* get_cached_release returns (database.py lines 20-29).
Fields == {"title", "artists", "labels", "catno", "country", "year", "genres",
           "styles", "price", "url"}

\* Python's None
None == <<>>

\* The dictionaries given to cache_release: two that carry the ten keys with
\* values all different, one that lacks eight of them, one with a key more.
Dict(v) == [k \in Fields |-> <<k, v>>]
Dicts == {Dict(1), Dict(2),
          [k \in {"title", "year"} |-> <<k, 3>>],
          [k \in Fields \cup {"thumb"} |-> <<k, 4>>]}

\* release_data.get(k): None when the key is missing
DictGet(d, k) == IF k \in DOMAIN d THEN d[k] ELSE None

\* cache_release, lines 164-173 and 177-188: what goes into the columns
Columns(d) == [k \in Fields |-> DictGet(d, k)]

\* session.query(CachedRelease).filter_by(id=release_id): the rows of an id
RowsOf(id) == {r \in table : r.id = id}

\* A lookup for which no entry is ever too old.
ExpiredNever(at) == FALSE

\* get_cached_release, lines 126-127: cache_age > timedelta(days=30), for a
\* row last written at tick `at`
Expired(at) == (clock - at) * DaysPerTick > MaxAgeDays

NoReply == [op |-> "none", id |-> 0, at |-> 0, found |-> FALSE, data |-> None]
NoPut == [set |-> FALSE, d |-> None, at |-> 0]

\* An empty table, as init_db creates it (lines 105-108)
DbFields ==
    /\ table = {}
    /\ clock = 0
    /\ reply = NoReply
    /\ put = [id \in ReleaseIds |-> NoPut]

\* DatabaseManager.cache_release(id, d), lines 152-197, on a database that
\* works: the first row of the id is updated, or a new row is added, with
\* updated_at the present time.
DB_Store(id, d) ==
    /\ table' = IF RowsOf(id) # {}
                THEN LET cached == CHOOSE r \in RowsOf(id) : TRUE
                     IN (table \ {cached})
                            \cup {[id |-> id, data |-> Columns(d), updated_at |-> clock]}
                ELSE table \cup {[id |-> id, data |-> Columns(d), updated_at |-> clock]}
    /\ put' = [put EXCEPT ![id] = [set |-> TRUE, d |-> d, at |-> clock]]
    /\ reply' = NoReply
    /\ UNCHANGED <<bucketVars, callerVars, running, queue, unfinished, retry_count,
                   stats, cache, wpc, held, cached_data, nap, mpc, mi, ids, givenVars,
                   jobVars, stats_lock, observerVars, clientVars, returned, cache0,
                   fetchLog, cbLog, counted, burst, clock>>

\* DatabaseManager.get_cached_release(id), lines 110-150, on a database
\* that works: None without a row, None and the row deleted when it is too
\* old, else the ten columns of the row.
DB_Get(id) ==
    /\ IF RowsOf(id) = {}
       THEN /\ reply' = [op |-> "get", id |-> id, at |-> clock, found |-> FALSE,
                         data |-> None]
            /\ UNCHANGED table
       ELSE LET cached == CHOOSE r \in RowsOf(id) : TRUE
            IN IF Expired(cached.updated_at)
               THEN /\ table' = table \ {cached}
                    /\ reply' = [op |-> "get", id |-> id, at |-> clock,
                                 found |-> FALSE, data |-> None]
               ELSE /\ reply' = [op |-> "get", id |-> id, at |-> clock,
                                 found |-> TRUE,
                                 data |-> [k \in Fields |-> cached.data[k]]]
                    /\ UNCHANGED table
    /\ UNCHANGED <<bucketVars, callerVars, running, queue, unfinished, retry_count,
                   stats, cache, wpc, held, cached_data, nap, mpc, mi, ids, givenVars,
                   jobVars, stats_lock, observerVars, clientVars, returned, cache0,
                   fetchLog, cbLog, counted, burst, clock, put>>

\* Time passes: datetime.utcnow() is one tick later.
DB_Tick ==
    /\ clock < MaxClock
    /\ clock' = clock + 1
    /\ UNCHANGED <<bucketVars, callerVars, running, queue, unfinished, retry_count,
                   stats, cache, wpc, held, cached_data, nap, mpc, mi, ids, givenVars,
                   jobVars, stats_lock, observerVars, clientVars, returned, cache0,
                   fetchLog, cbLog, counted, burst, table, reply, put>>

\* No cancel has stopped the pool yet.
NoCut == [made |-> FALSE, kept |-> {}]

\* batch_export, lines 134-145 and 177-179: the job is stored with status
\* 'starting' and the thread of run_batch is started; st and pc are the
\* status and the position of that thread at the moment the model begins
\* (line 161 done or not yet).
JobFields(st, pc) ==
    /\ status = st
    /\ jpc = pc
    /\ hpc = "idle"
    /\ dl = "none"
    /\ cut = NoCut

\* WorkerPool.__init__, lines 133-158, and the cache as the batch finds it:
\* nw workers, the tasks of batch b carrying priorities pr, the client thread
\* about to run the statement pc0.
PoolFieldsWith(b, c0, nw, pr, pc0) ==
    /\ JobFields(IF pc0 = "new" THEN "starting" ELSE "processing",
                 IF pc0 = "new" THEN "idle" ELSE "run")
    /\ DbFields
    /\ num_workers = nw
    /\ priority = pr
    /\ xpc = "idle"
    /\ abandoned = {}
    /\ spc = "idle"
    /\ wt = NoWait
    /\ running = FALSE
    /\ queue = {}
    /\ unfinished = 0
    /\ retry_count = [t \in Tasks |-> 0]
    /\ stats = NoStats
    /\ stats_lock = 0
    /\ gpc = "idle"
    /\ gsnap = NoStats
    /\ cache = c0
    /\ wpc = [w \in Workers |-> "unborn"]
    /\ held = [w \in Workers |-> 0]
    /\ cached_data = [w \in Workers |-> "unset"]
    /\ nap = [w \in Workers |-> 0]
    /\ mpc = pc0
    /\ mi = 1
    /\ ids = b
    /\ returned = NoStats
    /\ cache0 = c0
    /\ fetchLog = [t \in Tasks |-> <<>>]
    /\ cbLog = [t \in Tasks |-> <<>>]
    /\ counted = [t \in Tasks |-> "none"]
    /\ burst = 0

\* BatchProcessor.__init__ and process_releases: NumWorkers workers, every
\* task with the default priority, start() called first (line 476).
PoolFields(b, c0) ==
    PoolFieldsWith(b, c0, NumWorkers, [t \in Tasks |-> DefaultPriority], "start")

\* A bucket that started empty.
BucketFieldsEmpty(cap, rate) ==
    /\ capacity = cap
    /\ refill_rate = rate
    /\ tokens = 0
    /\ elapsed = 0
    /\ lock = 0

\* TokenBucket.__init__, lines 40-44: the bucket starts full
BucketFields(cap, rate) ==
    /\ capacity = cap
    /\ refill_rate = rate
    /\ tokens = cap * Scale
    /\ elapsed = 0
    /\ lock = 0

CallerFields ==
    /\ cpc = [c \in Callers |-> "idle"]
    /\ cn = [c \in Callers |-> 0]
    /\ cres = [c \in Callers |-> FALSE]
    /\ snap = [c \in Callers |-> NoSnap]
    /\ avail0 = capacity * Scale
    /\ granted = 0
    /\ base = capacity * Scale
    /\ since = 0
    /\ fresh = TRUE
    /\ pure = TRUE
    /\ seen = 0

\* The steps of the pool that do not depend on what the collaborators answer.
PoolStep ==
    \/ \E w \in Workers : W_Loop(w)
    \/ \E w \in Workers : W_Get(w)
    \/ \E w \in Workers : W_CountCompleted(w)
    \/ \E w \in Workers : W_TaskDone(w)
    \/ \E w \in Workers : W_Consume(w)
    \/ \E w \in Workers : W_WaitSleep(w)
    \/ \E w \in Workers : W_Wake(w)
    \/ \E w \in Workers : W_FetchOk(w)
    \/ \E w \in Workers : W_CallbackOk(w)
    \/ M_Start
    \/ M_Put
    \/ M_Count
    \/ M_StopCheck
    \/ M_Join
    \/ M_Clear
    \/ M_Return
    \/ Tick

\* The collaborators failing in every way the worker loop provides for: the
\* database (caught inside database.py), the fetch, and the callback.
FaultyStep ==
    \/ \E w \in Workers, dbFails \in BOOLEAN : W_Lookup(w, dbFails)
    \/ \E w \in Workers, raises \in BOOLEAN : W_HitCallback(w, raises)
    \/ \E w \in Workers, e \in FetchErrors, has429 \in BOOLEAN, afterCount \in BOOLEAN :
            W_FetchError(w, e, has429, afterCount)
    \/ \E w \in Workers, dbFails \in BOOLEAN : W_Store(w, dbFails)
    \/ \E w \in Workers, has429 \in BOOLEAN : W_CallbackRaises(w, has429)
    \/ \E w \in Workers, raises \in BOOLEAN : W_FailCallback(w, raises)
    \/ \E w \in Workers : W_Requeue(w)

\* process_releases on a batch of FaultyTasks ids, any cache, and
\* collaborators that may fail: the fetch, the database and the callback.
\* The bucket refills FaultyRate sub-units per tick, so that a retry can find
\* it short of a token.
Init ==
    /\ \E cap \in 1..PoolCapacity : BucketFields(cap, FaultyRate)
    /\ CallerFields
    /\ \E b \in Batches(FaultyTasks), c0 \in SUBSET ReleaseIds : PoolFields(b, c0)

Next == PoolStep \/ FaultyStep

Spec == Init /\ [][Next]_vars

\* process_releases on a batch of NumTasks ids, any cache, with a fetch that
\* may fail with any error while the release is read (lines 241-291); the
\* database works and the callback returns. The bucket refills one token
\* per tick.
InitFetch ==
    /\ \E cap \in 1..PoolCapacity : BucketFields(cap, Scale)
    /\ CallerFields
    /\ \E b \in Batches(NumTasks), c0 \in SUBSET ReleaseIds : PoolFields(b, c0)

NextFetch ==
    \/ PoolStep
    \/ \E w \in Workers : W_Lookup(w, FALSE)
    \/ \E w \in Workers : W_HitCallback(w, FALSE)
    \/ \E w \in Workers, e \in FetchErrors, has429 \in BOOLEAN :
            W_FetchError(w, e, has429, TRUE)
    \/ \E w \in Workers : W_Store(w, FALSE)
    \/ \E w \in Workers : W_FailCallback(w, FALSE)
    \/ \E w \in Workers : W_Requeue(w)

SpecFetch == InitFetch /\ [][NextFetch]_vars

\* process_releases on a batch of NumTasks + 1 ids with an empty cache and
\* collaborators that never fail: every fetch succeeds, the database works,
\* the callback returns.
InitQuiet ==
    /\ BucketFields(QuietCapacity, Scale)
    /\ CallerFields
    /\ \E b \in Batches(NumTasks + 1) : PoolFields(b, {})

NextQuiet ==
    \/ PoolStep
    \/ \E w \in Workers : W_Lookup(w, FALSE)
    \/ \E w \in Workers : W_HitCallback(w, FALSE)
    \/ \E w \in Workers : W_Store(w, FALSE)

SpecQuiet == InitQuiet /\ [][NextQuiet]_vars

\* process_releases on a batch of NumTasks ids with an empty cache and a
\* fetch that always fails with a rate-limit error; the database works and
\* the callback returns.
InitExhaust ==
    /\ BucketFields(QuietCapacity, Scale)
    /\ CallerFields
    /\ \E b \in Batches(NumTasks) : PoolFields(b, {})

NextExhaust ==
    \/ \E w \in Workers : W_Loop(w)
    \/ \E w \in Workers : W_Get(w)
    \/ \E w \in Workers : W_Lookup(w, FALSE)
    \/ \E w \in Workers : W_Consume(w)
    \/ \E w \in Workers : W_WaitSleep(w)
    \/ \E w \in Workers : W_Wake(w)
    \/ \E w \in Workers : W_FetchError(w, "rate", TRUE, TRUE)
    \/ \E w \in Workers : W_Requeue(w)
    \/ \E w \in Workers : W_FailCallback(w, FALSE)
    \/ \E w \in Workers : W_TaskDone(w)
    \/ M_Start
    \/ M_Put
    \/ M_Count
    \/ M_StopCheck
    \/ M_Join
    \/ M_Clear
    \/ M_Return
    \/ Tick

SpecExhaust == InitExhaust /\ [][NextExhaust]_vars

\* The priorities a client gives its tasks.
Priorities == {1, DefaultPriority}

\* A client of WorkerPool with a single worker: it submits NumTasks + 1 tasks
\* with priorities of its choice (add_task), then calls start() and
\* stop(wait=True). The cache is empty and no collaborator fails.
InitPriority ==
    /\ BucketFields(PoolCapacity, Scale)
    /\ CallerFields
    /\ \E b \in Batches(NumTasks + 1), pr \in [Tasks -> Priorities] :
        PoolFieldsWith(b, {}, 1, pr, "put")

NextPriority == NextQuiet

SpecPriority == InitPriority /\ [][NextPriority]_vars

\* process_releases on a batch of NumTasks ids with an empty cache and
\* collaborators that never fail, while another thread cancels the batch
\* with stop(wait=False) at a moment of its choice.
InitCancel ==
    /\ BucketFields(PoolCapacity, Scale)
    /\ CallerFields
    /\ \E b \in Batches(NumTasks) : PoolFields(b, {})

NextCancel ==
    \/ NextQuiet
    \/ X_Stop
    \/ X_Return

SpecCancel == InitCancel /\ [][NextCancel]_vars

\* What worker w does next, with collaborators that never fail.
WorkerStep(w) ==
    \/ W_Loop(w)
    \/ W_Get(w)
    \/ W_Lookup(w, FALSE)
    \/ W_HitCallback(w, FALSE)
    \/ W_CountCompleted(w)
    \/ W_TaskDone(w)
    \/ W_Consume(w)
    \/ W_WaitSleep(w)
    \/ W_Wake(w)
    \/ W_FetchOk(w)
    \/ W_Store(w, FALSE)
    \/ W_CallbackOk(w)

\* The same under fair scheduling: a thread that can run does run, a thread
\* that keeps finding the bucket lock free gets it, time passes, and the
\* joins of stop time out.
SpecCancelFair ==
    /\ SpecCancel
    /\ \A w \in Workers : SF_vars(WorkerStep(w))
    /\ WF_vars(Tick)
    /\ WF_vars(X_Return)

\* A pool of one worker on which two threads call start(): the thread that
\* goes on to submit FaultyTasks + 1 tasks and to stop the pool, as
\* process_releases does, and another one. Empty cache, collaborators that
\* never fail.
InitStart ==
    /\ BucketFields(PoolCapacity, Scale)
    /\ CallerFields
    /\ \E b \in Batches(FaultyTasks + 1) :
        PoolFieldsWith(b, {}, 1, [t \in Tasks |-> DefaultPriority], "start")

NextStart ==
    \/ NextQuiet
    \/ S_Check
    \/ S_Set
    \/ S_Spawn

SpecStart == InitStart /\ [][NextStart]_vars

\* A thread calling wait_for_token(n, timeout) again and again on a bucket
\* of its own, for n up to capacity + 1 and timeouts of 0..MaxTimeout ticks,
\* under fair scheduling: the thread runs when it can, and time passes.
InitWait ==
    /\ \E cap \in 1..MaxCapacity, rate \in 1..MaxRate : BucketFields(cap, rate)
    /\ CallerFields
    /\ PoolFields(<<>>, {})

WaitStep ==
    \/ T_Consume
    \/ T_Timeout
    \/ T_WaitSleep
    \/ T_Wake
    \/ T_Return

NextWait ==
    \/ \E n \in 1..(capacity + 1), timeout \in 0..MaxTimeout : T_Call(n, timeout)
    \/ WaitStep
    \/ Tick

SpecWait == InitWait /\ [][NextWait]_vars /\ WF_vars(WaitStep) /\ WF_vars(Tick)

\* process_releases on a batch of NumTasks + 1 ids, all of them cached, with
\* a database whose every lookup fails (get_cached_release catches the error
\* and returns None); nothing else fails.
InitLookupFails ==
    /\ BucketFields(QuietCapacity, Scale)
    /\ CallerFields
    /\ \E b \in Batches(NumTasks + 1) : PoolFields(b, ReleaseIds)

NextLookupFails ==
    \/ PoolStep
    \/ \E w \in Workers : W_Lookup(w, TRUE)
    \/ \E w \in Workers : W_Store(w, FALSE)

SpecLookupFails == InitLookupFails /\ [][NextLookupFails]_vars

\* process_releases on a batch of NumTasks ids with an empty cache, a fetch
\* that always succeeds and a database whose every store fails (cache_release
\* catches the error); the callback returns or raises.
InitStoreFails ==
    /\ BucketFields(PoolCapacity, Scale)
    /\ CallerFields
    /\ \E b \in Batches(NumTasks) : PoolFields(b, {})

NextStoreFails ==
    \/ PoolStep
    \/ \E w \in Workers : W_Lookup(w, FALSE)
    \/ \E w \in Workers : W_Store(w, TRUE)
    \/ \E w \in Workers, has429 \in BOOLEAN : W_CallbackRaises(w, has429)
    \/ \E w \in Workers : W_Requeue(w)
    \/ \E w \in Workers : W_FailCallback(w, FALSE)

SpecStoreFails == InitStoreFails /\ [][NextStoreFails]_vars

\* What the thread running process_releases does next.
MainStep ==
    \/ M_Start
    \/ M_Put
    \/ M_Count
    \/ M_StopCheck
    \/ M_Join
    \/ M_Clear
    \/ M_Return

\* The cancelled batch under fair scheduling of every thread, the one running
\* process_releases included.
SpecBatchFair == SpecCancelFair /\ WF_vars(MainStep)

\* process_releases on a batch of NumTasks ids with an empty cache and
\* collaborators that never fail, under fair scheduling of the workers and
\* of the thread running process_releases, with time passing.
SpecTwinFair ==
    /\ InitCancel /\ [][NextQuiet]_vars
    /\ \A w \in Workers : SF_vars(WorkerStep(w))
    /\ WF_vars(Tick)
    /\ WF_vars(MainStep)

\* process_releases on a batch of NumTasks ids with an empty cache and a
\* database that may fail on any call, lookup or store; the fetch succeeds
\* and the callback returns.
InitCache == InitCancel

NextCache ==
    \/ PoolStep
    \/ \E w \in Workers, dbFails \in BOOLEAN : W_Lookup(w, dbFails)
    \/ \E w \in Workers, dbFails \in BOOLEAN : W_Store(w, dbFails)
    \/ \E w \in Workers : W_HitCallback(w, FALSE)

SpecCache == InitCache /\ [][NextCache]_vars

\* `with self.stats_lock:` entered by a worker about to run line 225 or 303:
\* the lock is taken in a step of its own, the increment follows
K_Acquire(w) ==
    /\ wpc[w] = "count_ok"
    /\ stats_lock = 0
    /\ stats_lock' = LockId(w)
    /\ UNCHANGED <<bucketVars, callerVars, running, queue, unfinished, retry_count,
                   stats, cache, wpc, held, cached_data, nap, mpc, mi, ids, givenVars, jobVars, dbVars,
                   observerVars, clientVars, returned, cache0, fetchLog, cbLog, counted,
                   burst>>

\* `with self.stats_lock:` entered by add_task, line 184
K_AcquireMain ==
    /\ mpc = "count"
    /\ stats_lock = 0
    /\ stats_lock' = MainId
    /\ UNCHANGED <<bucketVars, callerVars, running, queue, unfinished, retry_count,
                   stats, cache, wpc, held, cached_data, nap, mpc, mi, ids, givenVars, jobVars, dbVars,
                   observerVars, clientVars, returned, cache0, fetchLog, cbLog, counted,
                   burst>>

\* Another thread calls get_stats(). Line 395: with self.stats_lock
G_Acquire ==
    /\ gpc = "idle"
    /\ stats_lock = 0
    /\ stats_lock' = ObserverId
    /\ gpc' = "copy"
    /\ UNCHANGED <<bucketVars, callerVars, running, queue, unfinished, retry_count,
                   stats, cache, wpc, held, cached_data, nap, mpc, mi, ids, givenVars, jobVars, dbVars,
                   gsnap, clientVars, returned, cache0, fetchLog, cbLog, counted, burst>>

\* line 396: stats_copy = self.stats.copy()
G_Copy ==
    /\ gpc = "copy"
    /\ gsnap' = stats
    /\ gpc' = "release"
    /\ UNCHANGED <<bucketVars, callerVars, running, queue, unfinished, retry_count,
                   stats, stats_lock, cache, wpc, held, cached_data, nap, mpc, mi, ids,
                   givenVars, jobVars, dbVars, clientVars, returned, cache0, fetchLog, cbLog, counted,
                   burst>>

\* the end of the `with` of line 395; lines 398-405 work on the copy
G_Release ==
    /\ gpc = "release"
    /\ stats_lock' = 0
    /\ gpc' = "done"
    /\ UNCHANGED <<bucketVars, callerVars, running, queue, unfinished, retry_count,
                   stats, cache, wpc, held, cached_data, nap, mpc, mi, ids, givenVars, jobVars, dbVars,
                   gsnap, clientVars, returned, cache0, fetchLog, cbLog, counted, burst>>

\* The cancelled batch of SpecCancel with the statistics lock taken in steps
\* of its own, and another thread calling get_stats() at a moment of its
\* choice.
InitLocks == InitCancel

NextLocks ==
    \/ NextCancel
    \/ \E w \in Workers : K_Acquire(w)
    \/ K_AcquireMain
    \/ G_Acquire
    \/ G_Copy
    \/ G_Release

SpecLocks == InitLocks /\ [][NextLocks]_vars

\* process_releases on a batch of FaultyTasks ids, the cache empty or full,
\* with a fetch that may fail with any error and a cache-hit callback that
\* may raise (every path of the worker loop: hit, success, retry, terminal
\* failure, unexpected exception), while another thread cancels the batch
\* with stop(wait=False) at a moment of its choice.
InitFaultyCancel ==
    /\ BucketFields(PoolCapacity, FaultyRate)
    /\ CallerFields
    /\ \E b \in Batches(FaultyTasks), c0 \in {{}, ReleaseIds} : PoolFields(b, c0)

NextFaultyCancel ==
    \/ PoolStep
    \/ \E w \in Workers : W_Lookup(w, FALSE)
    \/ \E w \in Workers, raises \in BOOLEAN : W_HitCallback(w, raises)
    \/ \E w \in Workers, e \in FetchErrors, has429 \in BOOLEAN :
            W_FetchError(w, e, has429, FALSE)
    \/ \E w \in Workers : W_Store(w, FALSE)
    \/ \E w \in Workers : W_Requeue(w)
    \/ \E w \in Workers : W_FailCallback(w, FALSE)
    \/ X_Stop
    \/ X_Return

SpecFaultyCancel == InitFaultyCancel /\ [][NextFaultyCancel]_vars

\* A pool of one worker that process_releases drives with FaultyTasks + 1
\* tasks while another thread calls stop(wait=False) and then start() on
\* it. Empty cache, collaborators that never fail.
InitRestart ==
    /\ BucketFields(PoolCapacity, Scale)
    /\ CallerFields
    /\ \E b \in Batches(FaultyTasks + 1) :
        PoolFieldsWith(b, {}, 1, [t \in Tasks |-> DefaultPriority], "start")

NextRestart ==
    \/ NextQuiet
    \/ X_Stop
    \/ X_Return
    \/ X_Restart

SpecRestart == InitRestart /\ [][NextRestart]_vars

\* A job as batch_export leaves it: status 'starting', a pool of one worker,
\* FaultyTasks + 1 ids to process, an empty cache and collaborators that
\* never fail; run_batch runs in its thread while clients send cancel and
\* download requests.
InitJob ==
    /\ BucketFields(PoolCapacity, Scale)
    /\ CallerFields
    /\ \E b \in Batches(FaultyTasks + 1) :
        PoolFieldsWith(b, {}, 1, [t \in Tasks |-> DefaultPriority], "new")

NextJob ==
    \/ NextQuiet
    \/ J_Begin
    \/ J_Complete
    \/ J_Error
    \/ H_Cancel
    \/ H_Stop
    \/ H_Join
    \/ H_Set
    \/ H_Next
    \/ H_Download
    \/ H_Downloaded

SpecJob == InitJob /\ [][NextJob]_vars

\* A thread that stores and looks up releases in a table that starts empty,
\* with any of the dictionaries and ids, while time passes.
InitTable ==
    /\ BucketFields(PoolCapacity, Scale)
    /\ CallerFields
    /\ PoolFields(<<>>, {})

NextTable ==
    \/ \E id \in ReleaseIds, d \in Dicts : DB_Store(id, d)
    \/ \E id \in ReleaseIds : DB_Get(id)
    \/ DB_Tick

SpecTable == InitTable /\ [][NextTable]_vars

\* ------------------------------------- TokenBucket under direct callers

\* A bucket of any capacity up to MaxCapacity driven by threads that call
\* consume(n); the pool is built and idle.
InitBucket ==
    /\ \E cap \in 1..MaxCapacity, rate \in 1..MaxRate : BucketFields(cap, rate)
    /\ CallerFields
    /\ PoolFields(<<>>, {})

NextBucket ==
    \/ \E c \in Callers, n \in 0..MaxN : C_Call(c, n)
    \/ \E c \in Callers : C_Acquire(c)
    \/ \E c \in Callers : C_Refill(c)
    \/ \E c \in Callers : C_Check(c)
    \/ \E c \in Callers : C_Dec(c)
    \/ \E c \in Callers : C_Release(c)
    \/ BucketTick

BucketSpec == InitBucket /\ [][NextBucket]_vars

\* ------------------------------------------------------------ claims

\* C2: for any sequence of consume(n) calls, n >= 0, interleaved with
\* arbitrary advances of time and from concurrent callers, the token count
\* satisfies 0 <= tokens <= capacity at every observation point.
C2_TokenBound == 0 <= tokens /\ tokens <= capacity * Scale

\* C2 witness: a consume has emptied the bucket, time has passed, and the
\* bucket is being consumed from again.
C2_Witness ==
    /\ tokens = 0
    /\ elapsed > 0
    /\ \E c \in Callers : cpc[c] = "refill" /\ cn[c] > 0

\* C3: consume(n) first refills to min(capacity, tokens + elapsed * rate);
\* it returns True and takes exactly n tokens iff the refilled count is at
\* least n, and otherwise returns False and leaves the refilled count. Stated
\* where consume is about to return, against the bucket as the call found it.
C3_ConsumeContract ==
    \A c \in Callers :
        cpc[c] = "release" =>
            LET r == Min(capacity * Scale, snap[c].tok + snap[c].el * refill_rate) IN
            IF r >= cn[c] * Scale
            THEN cres[c] /\ tokens = r - cn[c] * Scale
            ELSE ~cres[c] /\ tokens = r

\* C3 witness: a consume(n), n >= 1, that found too few tokens, refilled, and
\* returns True.
C3_Witness ==
    \E c \in Callers :
        /\ cpc[c] = "release"
        /\ cres[c]
        /\ cn[c] >= 1
        /\ snap[c].el > 0
        /\ snap[c].tok < cn[c] * Scale

\* C4: consume is atomic under concurrent callers: while no time passes, the
\* tokens granted by the consume calls that return True never exceed the k
\* tokens that were available, so at most floor(k / n) of any set of
\* concurrent consume(n) calls succeed.
C4_AtomicConsume == granted <= avail0

\* C4 witness: one token was available, a consume(1) has taken it and is
\* about to return True while a concurrent consume(1) waits for the lock.
C4_Witness ==
    \E c, d \in Callers :
        /\ c # d
        /\ avail0 = Scale
        /\ granted = Scale
        /\ cpc[c] = "release" /\ cres[c] /\ cn[c] = 1
        /\ cpc[d] = "acquire" /\ cn[d] = 1
        /\ elapsed = 0

\* A step obeys the token gate: a worker comes to the fetch of line 235 only
\* out of a consume(1) of its own that found a token and took it, and a
\* fetch is made only by a worker standing there, which then leaves, so that
\* its next attempt needs a consume of its own again.
C1_TokenFirst ==
    /\ \A w \in Workers :
        (wpc[w] # "fetch" /\ wpc'[w] = "fetch") =>
            /\ wpc[w] = "wait"
            /\ Refilled(capacity, tokens, elapsed) >= Scale
            /\ tokens' = Refilled(capacity, tokens, elapsed) - Scale
    /\ \A t \in Tasks :
        fetchLog'[t] # fetchLog[t] =>
            \E w \in Workers : held[w] = t /\ wpc[w] = "fetch" /\ wpc'[w] # "fetch"
    /\ burst' > burst => \E t \in Tasks : Len(fetchLog'[t]) = Len(fetchLog[t]) + 1

\* C1 as stated: every fetch is preceded by a successful consume(1) of the
\* same worker for that attempt, and over any interval of length T the pool
\* makes at most capacity + refill_rate * T fetches.
C1_Original == [](burst <= capacity * Scale) /\ [][C1_TokenFirst]_vars

\* C1, amended: every fetch is preceded by a successful consume(1) of the
\* same worker for that attempt, and over any interval of length T the pool
\* makes at most capacity + refill_rate * T + num_workers fetches: each
\* worker may hold one token it took earlier.
C1_RateGate == [](burst <= (capacity + NumWorkers) * Scale) /\ [][C1_TokenFirst]_vars

\* C1 witness: every worker has fetched on a token it held at an instant
\* when the bucket had refilled, one more fetch than the capacity allows.
C1_Witness ==
    /\ burst = NumWorkers * Scale
    /\ burst > capacity * Scale
    /\ \A w \in Workers : wpc[w] = "store"

\* What a step of worker w on the cache-hit path must do for C5: the lookup
\* that finds a record bumps cache_hits alone, the callback gets the record,
\* and completed is bumped next; no token is taken and no fetch is made.
C5_HitStep(w) ==
    /\ (wpc[w] = "lookup" /\ wpc'[w] = "hit_cb") =>
            /\ stats' = [stats EXCEPT !.cache_hits = stats.cache_hits + 1]
            /\ tokens' = tokens
    /\ (wpc[w] = "hit_cb" /\ wpc'[w] # "hit_cb") =>
            /\ cbLog'[held[w]] = Append(cbLog[held[w]], "rec")
            /\ fetchLog' = fetchLog
            /\ tokens' = tokens
            /\ stats' = stats
            /\ wpc'[w] = "count_ok"
    /\ (wpc[w] = "count_ok" /\ wpc'[w] # "count_ok") =>
            /\ stats' = [stats EXCEPT !.completed = stats.completed + 1]
            /\ tokens' = tokens
            /\ wpc'[w] = "task_done"

\* C5: if get_cached_release returns a record for a task's identifier, the
\* worker makes no fetch and takes no token for it; it invokes the callback
\* with the cached record and increments cache_hits and completed, leaving
\* api_calls, retries and failed unchanged.
C5_CacheHit == [][\A w \in Workers : C5_HitStep(w)]_vars

\* C6: after stop(wait=True) has returned, and so after process_releases has
\* returned, completed + failed = total_tasks, whatever the outcomes of the
\* tasks, exceptions raised by the collaborators included.
C6_AllCounted ==
    mpc \in {"stats", "done"} => stats.completed + stats.failed = stats.total_tasks

\* C7: at every reachable state a statistics snapshot satisfies
\* completed + failed <= total_tasks, also while add_task submits tasks to
\* workers that are already running.
C7_NeverAhead == stats.completed + stats.failed <= stats.total_tasks

\* C8: process_releases(ids) with an empty cache and a fetcher that always
\* succeeds returns statistics with total_tasks = len(ids),
\* completed + failed = len(ids) and failed = 0, and the queue is empty on
\* return.
C8_DrainComplete ==
    mpc = "done" =>
        /\ returned.total_tasks = Len(ids)
        /\ returned.completed + returned.failed = Len(ids)
        /\ returned.failed = 0
        /\ queue = {}

\* C9: stop(wait=True) does not clear the running flag until every submitted
\* task, every retried re-submission included, has reached a terminal
\* outcome: once task_queue.join() has returned no task is in the queue, in
\* flight at a worker, or held by a worker sleeping in retry backoff.
C9_DrainBarrier ==
    mpc \in {"clear", "stats", "done"} =>
        /\ mi > Len(ids)
        /\ queue = {}
        /\ \A w \in Workers : held[w] = 0 /\ wpc[w] \in {"loop", "get", "stopped"}

\* C9 witness: join() has just returned, running is still set, and a task of
\* the batch had been put back by a retry.
C9_Witness ==
    /\ mpc = "clear"
    /\ running
    /\ \E t \in Tasks : retry_count[t] >= 1

\* The fetch history of a task that met k rate-limit errors and then success.
RateThenOk(k) == [i \in 1..(k + 1) |-> IF i <= k THEN "rate" ELSE "ok"]

\* C10: a task whose fetch fails with a rate-limit error on its first k
\* attempts, 1 <= k <= max_retries, and then succeeds yields exactly one
\* callback invocation, carrying the record, and no failure callback; it
\* adds k to retries, 1 to completed and 0 to failed.
C10_RetryThenSuccess ==
    \A t \in 1..Len(ids) :
        \A k \in 1..max_retries :
            (mpc = "done" /\ fetchLog[t] = RateThenOk(k)) =>
                /\ cbLog[t] = <<"rec">>
                /\ counted[t] = "completed"
                /\ retry_count[t] = k

\* C11: a task whose fetch always fails with a rate-limit error, with
\* max_retries = m, is fetched exactly m + 1 times, adds m to retries, 1 to
\* failed and 0 to completed, receives exactly one callback, with None, and
\* is then discarded; in every state its retry_count is at most m.
C11_RetryExhaustion ==
    /\ \A t \in Tasks : retry_count[t] <= max_retries
    /\ mpc = "done" =>
        /\ \A t \in 1..Len(ids) :
            /\ fetchLog[t] = [i \in 1..(max_retries + 1) |-> "rate"]
            /\ retry_count[t] = max_retries
            /\ counted[t] = "failed"
            /\ cbLog[t] = <<"none">>
            /\ t \notin queue
        /\ returned.retries = max_retries * Len(ids)
        /\ returned.failed = Len(ids)
        /\ returned.completed = 0

C12_PermStep(w) ==
    (/\ wpc[w] = "fetch"
     /\ fetchLog'[held[w]] = Append(fetchLog[held[w]], "perm"))
    => /\ wpc'[w] = "fail_cb"
       /\ stats'.failed = stats.failed + 1
       /\ stats'.retries = stats.retries
       /\ retry_count' = retry_count
       /\ queue' = queue

\* C12: a fetch error of kind Permanent is never retried, whatever its
\* message contains (the digits 429 included): the step that raises it leads
\* straight to the failure callback with failed + 1, retries unchanged and
\* nothing put back on the queue.
C12_PermanentNotRetried == [][\A w \in Workers : C12_PermStep(w)]_vars

C16_ExitStep(w) ==
    (wpc'[w] = "stopped" /\ wpc[w] # "stopped")
    => (wpc[w] = "loop" /\ ~running)

\* C16: no exception raised while one task is processed (cache lookup,
\* rate-limiter wait, fetch, extraction, cache store, callback) ends the
\* worker's loop: a worker leaves the loop only at the test of line 203, with
\* the running flag cleared, so after any such error it is alive and goes
\* round to dequeue again.
C16_WorkerSurvives == [][\A w \in Workers : C16_ExitStep(w)]_vars

\* the pool is running with every worker alive, and a task whose fetch
\* raised has been dequeued again
C16_Witness ==
    /\ running
    /\ \A w \in Workers : wpc[w] \notin {"unborn", "stopped"}
    /\ \E w \in Workers :
        /\ wpc[w] = "lookup"
        /\ held[w] # 0
        /\ fetchLog[held[w]] # <<>>

\* C19: with no successful consumption in between, the tokens observed dt
\* after an observation of tokens0 are min(capacity, tokens0 + dt *
\* refill_rate), however many refills (failed consumes) happened in between:
\* what a refill would show now, computed from the bucket's fields, equals
\* what the level just after the last successful consume and the time since
\* give.
C19_RefillAdditive ==
    Min(capacity * Scale, tokens + elapsed * refill_rate)
        = Min(capacity * Scale, base + since * refill_rate)

\* two ticks after the last successful consume, a refill having been made
\* after the first of them, the bucket not yet full
C19_Witness ==
    /\ since = 2
    /\ elapsed = 1
    /\ base < tokens
    /\ tokens + refill_rate < capacity * Scale

\* C20: a fresh bucket starts full: with capacity C and no time elapsing,
\* exactly C consecutive consume(1) succeed and the next fails; one token's
\* refill time (1 / refill_rate) after the bucket was emptied one further
\* consume(1) succeeds, and not before.
C20_StartsFull ==
    /\ (fresh /\ pure) =>
        /\ granted <= capacity * Scale
        /\ \A c \in Callers :
            (cpc[c] = "release" /\ cn[c] = 1 /\ ~cres[c])
            => granted = capacity * Scale
    /\ \A c \in Callers :
        (lock = c /\ cn[c] = 1 /\ base = 0) =>
            /\ cpc[c] = "dec" => seen * refill_rate >= Scale
            /\ (cpc[c] = "release" /\ ~cres[c]) => seen * refill_rate < Scale

\* capacity 2, one token per tick: two consume(1) emptied the fresh bucket,
\* one tick passed, and a further consume(1) is being granted
C20_Witness ==
    /\ capacity = 2
    /\ refill_rate = Scale
    /\ pure
    /\ base = 0
    /\ \E c \in Callers :
        /\ cpc[c] = "dec"
        /\ cn[c] = 1
        /\ snap[c].tok = 0
        /\ seen = 1

\* The task has been submitted and taken from the queue by a worker.
Dequeued(t) == t < mi /\ t \notin queue

\* C13: in a single-worker pool whose tasks were all submitted before
\* start(), every task of a lower priority value starts processing before
\* any task of a higher one.
C13_PriorityOrder ==
    \A t, u \in 1..Len(ids) :
        (priority[t] < priority[u] /\ Dequeued(u)) => Dequeued(t)

\* the spec's example: {p=1, A}, {p=5, B}, {p=1, C}; A and C have been
\* taken, B is still queued
C13_Witness ==
    /\ num_workers = 1
    /\ priority = <<1, DefaultPriority, 1>>
    /\ mi > Len(ids)
    /\ queue = {2}

\* C14: after stop(wait=False), no task that was still in the queue at that
\* moment is ever dequeued, and no callback is invoked for it.
C14_AbandonedUntouched ==
    \A t \in abandoned : t \in queue /\ cbLog[t] = <<>>

\* stop() has cleared the running flag of a started pool.
Cleared == Started /\ ~running

\* C15: once stop (with either value of wait) has cleared the running flag,
\* every worker eventually leaves its loop, after finishing at most the task
\* it holds at that moment (it takes no further task), under fair scheduling
\* with fetches that return and a positive refill rate; and stop(wait=False)
\* returns without waiting for the queue to drain.
C15_WorkersExit ==
    /\ [][\A w \in Workers : (Cleared /\ held[w] = 0) => held'[w] = 0]_vars
    /\ Cleared ~> (\A w \in Workers : wpc[w] = "stopped")
    /\ (xpc = "join") ~> (xpc = "done")

\* The worker threads start() has created so far.
Spawns == Cardinality({w \in Workers : wpc[w] # "unborn"})

\* C17: start is idempotent: on a running pool it does nothing, on a pool
\* that is not running it creates exactly num_workers workers, and this
\* holds also when two start calls are issued concurrently: until the pool
\* is stopped it never has more than num_workers workers, and once a start
\* call has returned it has exactly that many.
C17_StartIdempotent ==
    mpc \in {"start", "put", "count", "stop", "join", "clear"} =>
        /\ Spawns <= num_workers
        /\ (mpc # "start" /\ spc = "done") => Spawns = num_workers

\* C18: wait_for_token(n, timeout) called with a timeout returns a boolean
\* and never blocks indefinitely, for every timeout (0 included) and every n
\* (n > capacity included); it returns False only if the tokens did not
\* become available.
C18_WaitReturns ==
    /\ [](wt.pc # "raised")
    /\ (wt.pc = "try") ~> (wt.pc = "done")
    /\ []((wt.pc = "done" /\ ~wt.res) => wt.waited > wt.timeout)

C21_MissStep(w) ==
    (wpc[w] = "lookup" /\ wpc'[w] # "lookup")
    => (wpc'[w] = "wait" /\ stats' = stats)

\* C21: a failure of the cache lookup is not fatal and counts as a cache
\* miss: the task goes on to the rate-limiter wait and the remote fetch, and
\* still reaches a terminal outcome counted in completed or failed.
C21_LookupFailureIsMiss ==
    /\ [][\A w \in Workers : C21_MissStep(w)]_vars
    /\ [](mpc = "done" =>
            \A t \in 1..Len(ids) :
                fetchLog[t] # <<>> /\ counted[t] \in {"completed", "failed"})

C22_StoreStep(w) ==
    (wpc[w] = "store" /\ wpc'[w] # "store")
    => (wpc'[w] = "cb" /\ stats' = stats /\ retry_count' = retry_count)

\* C22: a failure to store a fetched record in the cache is not fatal to the
\* task: after a successful fetch whose store fails, the callback is still
\* invoked with the fetched record, completed is incremented, and failed and
\* retries are unchanged.
C22_StoreFailureHarmless ==
    /\ [][\A w \in Workers : C22_StoreStep(w)]_vars
    /\ [](stats.failed = 0 /\ stats.retries = 0)
    /\ [](mpc = "done" =>
            /\ returned.completed = Len(ids)
            /\ \A t \in 1..Len(ids) :
                cbLog[t] = <<"rec">> /\ counted[t] = "completed")

\* C23: process_releases always eventually returns to its caller with a
\* statistics snapshot (fetches return, refill_rate > 0), also when another
\* thread calls stop(wait=False) while process_releases is blocked inside
\* stop(wait=True) with tasks still queued.
C23_AlwaysReturns == <>(mpc = "done")

\* C24: over a task's whole life its callback is invoked at most once, and
\* exactly once by the time stop(wait=True) has returned; hence never both
\* with the record and with failure (None), even when the callback or a
\* later step raises.
C24_CallbackOnce ==
    /\ \A t \in 1..Len(ids) : Len(cbLog[t]) <= 1
    /\ mpc \in {"stats", "done"} => \A t \in 1..Len(ids) : Len(cbLog[t]) = 1

\* C25: a worker's loop exits only when the running flag is cleared and the
\* queue yields no task: a worker that finds the flag cleared while tasks
\* remain in the queue keeps draining them before it exits.
C25_ExitsOnlyWhenDrained ==
    [][\A w \in Workers :
          (wpc[w] # "stopped" /\ wpc'[w] = "stopped") => (~running /\ queue = {})]_vars

\* C25 as the code has it: a worker leaves its loop exactly at the test of
\* line 203, when it finds the running flag cleared, whatever the queue
\* holds; a worker at that test with the flag cleared takes no further task.
C25_ExitsWhenCleared ==
    [][\A w \in Workers :
          /\ (wpc[w] # "stopped" /\ wpc'[w] = "stopped")
                => (wpc[w] = "loop" /\ ~running /\ queue' = queue)
          /\ (wpc[w] = "loop" /\ ~running /\ wpc'[w] # wpc[w])
                => (wpc'[w] = "stopped" /\ queue' = queue /\ held' = held)]_vars

\* a worker has left its loop with the flag cleared and a task in the queue
C25_Witness ==
    \E w \in Workers : wpc[w] = "stopped" /\ ~running /\ queue # {}

\* C26: on the k-th retry of a task (k = its retry_count after the
\* increment, 1 <= k <= max_retries) the worker sleeps retry_delay * k and
\* then puts the same task back into the queue with its priority and
\* identifier as they were; only retry_count differs.
C26_RetryStep(w) ==
    LET t == held[w] IN
    /\ (wpc[w] # "backoff" /\ wpc'[w] = "backoff")
          => /\ retry_count'[t] = retry_count[t] + 1
             /\ retry_count'[t] \in 1..max_retries
             /\ nap'[w] = 0
    /\ (wpc[w] = "backoff" /\ wpc'[w] = "backoff")
          => nap'[w] < retry_delay * retry_count[t]
    /\ (wpc[w] = "backoff" /\ wpc'[w] # "backoff")
          => /\ wpc'[w] = "requeue"
             /\ nap'[w] = retry_delay * retry_count[t]
    /\ (wpc[w] = "requeue" /\ wpc'[w] # "requeue")
          => /\ queue' = queue \cup {t}
             /\ t \notin queue
             /\ ids' = ids
             /\ priority' = priority
             /\ retry_count' = retry_count

TwinFetch(t1, t2) ==
    /\ t1 # t2
    /\ ids[t1] = ids[t2]
    /\ ids[t1] \notin cache
    /\ fetchLog[t1] = <<"ok">>
    /\ fetchLog[t2] = <<"ok">>
    /\ \E w1, w2 \in Workers :
        /\ held[w1] = t1 /\ wpc[w1] = "store"
        /\ held[w2] = t2 /\ wpc[w2] = "store"

\* C27: cache check and fetch are not atomic: with two workers, two queued
\* tasks carrying the same identifier and an empty cache, both workers can
\* miss and the fetch be invoked twice for the identifier before either
\* writes the cache (the witness); whenever that happens both fetches are
\* counted and both tasks still complete, each with its record.
C27_TwinsComplete ==
    /\ [](\A t1, t2 \in 1..NumTasks :
            TwinFetch(t1, t2) => stats.api_calls >= 2 /\ stats.cache_hits = 0)
    /\ \A t1, t2 \in 1..NumTasks :
        TwinFetch(t1, t2) ~>
              /\ counted[t1] = "completed" /\ cbLog[t1] = <<"rec">>
              /\ counted[t2] = "completed" /\ cbLog[t2] = <<"rec">>
              /\ stats.completed >= 2
              /\ ids[t1] \in cache

\* both workers have fetched the same identifier and neither has stored it
C27_Witness ==
    \E t1, t2 \in 1..Len(ids) : TwinFetch(t1, t2)

\* Worker w holds a task whose identifier another task has already fetched
\* and stored, and that other task's callback has been invoked.
C28_AfterCallback(w) ==
    \E t \in 1..Len(ids) :
        /\ t # held[w]
        /\ ids[t] = ids[held[w]]
        /\ fetchLog[t] = <<"ok">>
        /\ ids[t] \in cache
        /\ cbLog[t] # <<>>

\* On a successful fetch the store comes first, then the callback, then the
\* increment of completed.
C28_StoreFirst(w) ==
    /\ (wpc[w] = "fetch" /\ wpc'[w] = "store")
          => (cache' = cache /\ cbLog' = cbLog /\ stats'.completed = stats.completed)
    /\ (wpc[w] = "store" /\ wpc'[w] # "store")
          => (wpc'[w] = "cb" /\ cbLog' = cbLog /\ stats' = stats)
    /\ (wpc[w] = "cb" /\ wpc'[w] # "cb")
          => /\ wpc'[w] = "count_ok"
             /\ cbLog'[held[w]] = Append(cbLog[held[w]], "rec")
             /\ stats' = stats
    /\ (wpc[w] = "count_ok" /\ wpc'[w] # "count_ok")
          => stats'.completed = stats.completed + 1

\* C28: on a successful fetch the record is stored in the cache before the
\* callback is invoked and before completed is incremented; hence, when the
\* store succeeds, any task for the same identifier that starts its cache
\* lookup after that task's callback is a cache hit and triggers no second
\* fetch.
C28_LaterLookupHits ==
    [][\A w \in Workers :
          /\ C28_StoreFirst(w)
          /\ (wpc[w] = "lookup" /\ wpc'[w] # "lookup" /\ C28_AfterCallback(w))
                => (wpc'[w] = "hit_cb" /\ fetchLog' = fetchLog)]_vars

\* C28 with the lookup's own failure taken into account: the store comes
\* before the callback and the increment; when the store succeeds, a task
\* for the same identifier that starts its lookup after that callback, and
\* whose lookup does not itself fail, is a cache hit; a task that hit is
\* never fetched.
C28_LaterLookupHitsUnlessItFails ==
    /\ [][\A w \in Workers :
            /\ C28_StoreFirst(w)
            /\ (wpc[w] = "lookup" /\ wpc'[w] # "lookup" /\ C28_AfterCallback(w))
                  => \/ cached_data'[w] = "error" /\ wpc'[w] = "wait"
                     \/ cached_data'[w] = "row" /\ wpc'[w] = "hit_cb"]_vars
    /\ [](\A w \in Workers :
            cached_data[w] = "row" =>
                /\ wpc[w] \in {"hit_cb", "count_ok", "task_done"}
                /\ fetchLog[held[w]] = <<>>)

\* a task has hit the cache on a row that its twin fetched and stored
C28_Witness ==
    \E w \in Workers :
        /\ wpc[w] = "hit_cb"
        /\ cached_data[w] = "row"
        /\ C28_AfterCallback(w)

\* A step of one of the threads using the pool: the workers, the thread
\* running process_releases (add_task, start, stop, get_stats), the thread
\* calling stop(wait=False) and the thread calling get_stats.
C29_ThreadStep ==
    \/ MainStep
    \/ K_AcquireMain
    \/ \E w \in Workers : WorkerStep(w) \/ K_Acquire(w)
    \/ X_Stop
    \/ X_Return
    \/ G_Acquire
    \/ G_Copy
    \/ G_Release

\* No thread holds the statistics lock and the bucket lock together, and a
\* worker holding the statistics lock is at the increment, not in a
\* callback, a cache call or a fetch.
C29_LocksApart ==
    /\ \A w \in Workers : ~(stats_lock = LockId(w) /\ lock = LockId(w))
    /\ \A w \in Workers : stats_lock = LockId(w) => wpc[w] = "count_ok"
    /\ stats_lock = MainId => mpc = "count"
    /\ lock \notin {MainId, ObserverId}

\* C29: the statistics lock and the bucket lock are never held at the same
\* time by one thread, and no callback, cache call or fetch is made while
\* holding the statistics lock; consequently no reachable state is a
\* deadlock among workers, add_task, get_stats and stop: until
\* process_releases has returned, some thread can take a step.
C29_NoDeadlock ==
    /\ C29_LocksApart
    /\ mpc # "done" => ENABLED C29_ThreadStep

\* C30: every write to a PoolStatistics field (total_tasks, completed,
\* failed, cache_hits, api_calls, retries, start_time, end_time) is
\* performed while holding the statistics lock: no field changes while
\* another thread holds the lock, and the writer leaves the lock free; so
\* get_stats never observes a partially updated block: as long as it holds
\* the lock, the block is the one it copied.
C30_WritesUnderLock ==
    /\ [][stats' # stats => stats_lock' = 0]_vars
    /\ [](gpc = "release" => gsnap = stats)

\* The workers that have dequeued a task and not yet answered it with
\* task_done.
Holders == {w \in Workers : held[w] # 0}

\* C31: on every path of the worker loop each dequeue is matched by exactly
\* one task_done, and a retried task is put back before that task_done; so
\* in every reachable state, also after stop(wait=False), the queue's
\* unfinished count equals the tasks in the queue plus the tasks held by
\* workers, it never goes negative, and task_done never raises (it is never
\* called with the count at 0).
C31_QueueConsistent ==
    /\ [](unfinished = Cardinality(queue) + Cardinality(Holders))
    /\ [](unfinished >= 0)
    /\ [][\A w \in Workers :
            /\ (wpc[w] = "task_done" /\ wpc'[w] # "task_done")
                  => (unfinished > 0 /\ held[w] # 0 /\ held'[w] = 0)
            /\ (held[w] # 0 /\ held'[w] = 0) => wpc[w] = "task_done"
            /\ (wpc[w] = "requeue" /\ wpc'[w] # "requeue")
                  => /\ wpc'[w] = "task_done"
                     /\ held[w] \in queue'
                     /\ unfinished' = unfinished + 1]_vars

\* the batch has been cancelled and a worker stands between the put of a
\* retry and its task_done: the task is queued and still held
C31_Witness ==
    /\ xpc = "done"
    /\ ~running
    /\ \E w \in Workers : wpc[w] = "task_done" /\ held[w] \in queue

\* Worker w holds a task: it has dequeued it and has neither put it back
\* for a retry nor brought it to its end (only task_done is left to do).
Holding(w) == held[w] # 0 /\ wpc[w] # "task_done"

\* The workers holding task t.
HoldersOf(t) == {w \in Workers : Holding(w) /\ held[w] = t}

\* C32: at every reachable state each submitted task is in exactly one
\* place: in the queue, held by exactly one worker, or terminated; it is
\* never in the queue while a worker holds it and never held by two workers,
\* so its retry_count is only ever modified by the single worker holding it.
C32_OnePlace ==
    /\ [](\A t \in Tasks :
            /\ Cardinality(HoldersOf(t)) <= 1
            /\ t \in queue => HoldersOf(t) = {}
            /\ (t \in queue \/ HoldersOf(t) # {}) => t < mi \/ mpc = "count")
    /\ [][\A t \in Tasks :
            retry_count'[t] # retry_count[t] =>
                \E w \in Workers :
                    /\ HoldersOf(t) = {w}
                    /\ wpc[w] # "backoff"
                    /\ wpc'[w] = "backoff"
                    /\ retry_count'[t] = retry_count[t] + 1]_vars

\* a retried task is held by a second worker while the worker that put it
\* back has not yet called task_done
C32_Witness ==
    \E w1, w2 \in Workers :
        /\ w1 # w2
        /\ wpc[w1] = "task_done"
        /\ held[w1] = held[w2]
        /\ Holding(w2)
        /\ retry_count[held[w2]] >= 1

\* C33: for refill_rate > 0 and n <= capacity, wait_for_token(n) without a
\* timeout never raises and eventually returns True: whenever its sleep is
\* reached the wait it computes, (n - tokens) / refill_rate after a second
\* refill, is non-negative, also when time advances between the failed
\* consume and that second refill.
C33_WaitNeverRaises ==
    /\ []((wt.n <= capacity /\ wt.timeout = 0) => wt.pc # "raised")
    /\ [][(wt.pc = "wait2" /\ wt.pc' # "wait2" /\ wt.n <= capacity /\ wt.timeout = 0)
            => wt.n * Scale - tokens' >= 0]_vars
    /\ (wt.pc = "try" /\ wt.n <= capacity /\ wt.timeout = 0)
          ~> (wt.pc = "done" /\ wt.res)

\* The threads that are executing _worker_loop.
LiveWorkers == {w \in Workers : wpc[w] \notin {"unborn", "stopped"}}

\* C34: after any sequence of start and stop calls on one pool, a
\* stop(wait=False) followed by a start while a worker is still busy
\* included, the threads executing the worker loop are never more than
\* num_workers.
C34_LiveBounded == Cardinality(LiveWorkers) <= num_workers

\* The fetch invocations the workers made, the attempts of every task.
Invocations ==
    UNION {{<<t, i>> : i \in 1..Len(fetchLog[t])} : t \in Tasks}

\* How many entries of the log s are x.
Occurrences(s, x) == Cardinality({i \in 1..Len(s) : s[i] = x})

\* The tasks counted completed at the end of a round that fetched the
\* record: a round that finds the record in the cache is the last round of
\* its task and hands one record to the callback without a fetch.
FetchCompleted ==
    {t \in Tasks : /\ counted[t] = "completed"
                   /\ Occurrences(cbLog[t], "rec") = Occurrences(fetchLog[t], "ok")}

\* C35: once the pool has drained, api_calls is the number of fetch
\* invocations the workers made, failed and retried attempts included, and
\* completed = cache_hits + the number of tasks completed through a fetch.
C35_StatsMatchFetches ==
    mpc \in {"stats", "done"} =>
        /\ stats.api_calls = Cardinality(Invocations)
        /\ stats.completed = stats.cache_hits + Cardinality(FetchCompleted)

\* C36: once batch_cancel has accepted a cancel and set the status, the
\* status is 'cancelled' in every later state: run_batch never writes
\* 'processing' or 'completed' over it; and once the cancel has stopped the
\* pool, the pool makes no remote fetch other than for the tasks the workers
\* held at that moment.
C36_CancelSticks ==
    /\ [][status = "cancelled" => status' = "cancelled"]_vars
    /\ [][\A w \in Workers :
            (cut.made /\ wpc[w] = "fetch" /\ wpc'[w] # "fetch")
                => held[w] \in cut.kept]_vars

\* The values the status of a job takes.
JobStatuses == {"starting", "processing", "completed", "error", "cancelled"}

\* C37: a batch_cancel for a job whose status is neither 'starting' nor
\* 'processing' answers with an error and changes neither the status nor
\* the pool; batch_download answers with the results only when the status is
\* 'completed' and with an error otherwise; and the status of a job is
\* always one of starting, processing, completed, error, cancelled.
C37_Handlers ==
    /\ [](status \in JobStatuses)
    /\ [][(hpc = "idle" /\ hpc' # "idle" /\ status \notin Cancellable)
            => /\ hpc' = "400"
               /\ status' = status
               /\ <<running, queue, unfinished, stats, wpc, held>>'
                    = <<running, queue, unfinished, stats, wpc, held>>]_vars
    /\ [][(dl = "none" /\ dl' # "none")
            => /\ dl' \in {"csv", "400"}
               /\ dl' = "csv" <=> status = "completed"]_vars

C37_Witness == status = "completed" /\ hpc = "400" /\ dl = "csv"


\* C38: a get_cached_release(id) that follows a cache_release(id, d) returns
\* the ten fields of d while the entry is at most 30 days old, and of the
\* last d when several were stored; the table never holds more than one
\* entry per id; an entry older than 30 days is reported absent and is
\* deleted by the lookup; an id never stored is absent.
C38_RoundTrip ==
    /\ \A id \in ReleaseIds : Cardinality(RowsOf(id)) <= 1
    /\ reply.op = "get" =>
          LET p == put[reply.id]
          IN /\ (p.set /\ (reply.at - p.at) * DaysPerTick <= MaxAgeDays) =>
                    /\ reply.found
                    /\ \A k \in Fields : reply.data[k] = DictGet(p.d, k)
             /\ (p.set /\ (reply.at - p.at) * DaysPerTick > MaxAgeDays) =>
                    /\ ~reply.found
                    /\ RowsOf(reply.id) = {}
             /\ ~p.set => ~reply.found

\* An entry of exactly 30 days is returned, with None for the keys its
\* dictionary lacked, while an older entry of the other id is in the table.
C38_Witness ==
    /\ reply.op = "get" /\ reply.found
    /\ (reply.at - put[reply.id].at) * DaysPerTick = MaxAgeDays
    /\ reply.data["title"] = <<"title", 3>> /\ reply.data["url"] = None
    /\ \E r \in table : r.id # reply.id /\ r.updated_at < put[reply.id].at
====
